---- MODULE Spec2Model ----
(***************************************************************************)
(* Model of the honeypot VM pool of honey_manager_paramiko.py: VMManager   *)
(* (warm/hot bookkeeping, asyncio.Lock, ensure_warm_vm, the reaper) and    *)
(* the listener thread that asks it for a target.                          *)
(*                                                                         *)
(* The asyncio event loop runs one task step at a time; a step ends at an  *)
(* await that really suspends (a held lock, to_thread, sleep).  Each       *)
(* action below is one such step.                                          *)
(***************************************************************************)
EXTENDS Integers, Sequences, FiniteSets, TLC

\* ---------------------------------------------------------------- bounds
Clients == {1, 2}             \* client IPs seen by the listener
MaxVMs == 4                   \* run ids handed out by _create_transient_vm
MaxWaiting == 2               \* get_target_for_client calls suspended on the lock
ClockStep == 10               \* minutes per tick of the model clock
MaxTime == 20                 \* last minute of the model clock
MaxFailures == 3              \* creation attempts (by run id) that may fail
MaxSessions == 1              \* relay sessions of one client at a time
MaxPayload == 4               \* bytes of one send_all payload
MaxResponseLines == 12       \* response lines the backend answers one command with
MaxKeys == 4                  \* keystroke bytes fed to one CommandLogger
MaxBytes == 3                 \* bytes the streams of a relay session carry together

\* ------------------------------------------------------- configuration
HotCapacities == {1, 2}       \* values of MAX_HOT_VMS explored (source: 1)
PERSISTENCE_MINUTES == 10

VARIABLES
    MAX_HOT_VMS,   \* configured capacity, fixed for a run
    warm_vm,       \* run id of the warm spare, 0 = None
    hot_vms,       \* client -> [id, last_seen]; id = 0: no entry
    locked,        \* asyncio.Lock._locked
    waiters,       \* asyncio.Lock._waiters, FIFO
    ensure_new,    \* ensure_warm_vm tasks created and not yet started
    call_window,   \* a call submitted during the creating step may still run first
    create_pc,     \* position of the ensure_warm_vm task that holds the lock
    run_id,        \* run id of the VM being created, 0 = none
    next_id,       \* next fresh run id
    vms,           \* run ids of active libvirt domains
    disks,         \* run ids whose overlay disk file exists
    now,           \* datetime.now(), minutes
    main_pc,       \* position of main()
    event,         \* what the step into this state did (history)
    assigned,      \* client -> IP returned to it since its session was last reaped (history)
    batch_created, \* VMs booted by overlapping ensure_warm_vm calls since the last promotion (history)
    served,        \* a promotion has happened since the last failed attempt (history)
    reaped,        \* client -> VM id of its session the reaper destroyed, until its next call (history)
    sessions,      \* client -> relay sessions (handle_paramiko_proxy) in progress
    disconnected,  \* client -> minute its last relay session ended (history)
    src,           \* stream -> bytes its source has still to offer
    rcvd,          \* stream -> bytes relay_channels has received from the source
    dst,           \* stream -> bytes delivered to the destination
    relay_pc,      \* position of relay_channels / handle_paramiko_proxy
    transferred,   \* local of relay_channels
    stop_reason,   \* local of relay_channels
    data,          \* the payload of the send_all call in progress
    view,          \* local of send_all: the part of the payload still to send
    sent,          \* local of send_all: what the last sender call returned, -1 before
    send_pc,       \* send_all: "none", the stream being sent to, "returned", the exception raised
    trace,         \* what the session has logged, flushed and closed, in order (history)
    cmd_buffer,    \* CommandLogger._buffer
    response_buffer, \* CommandLogger._response_buffer
    response_lines,  \* CommandLogger._response_lines
    log_lines,     \* lines handed to append_log_line, in order
    server,        \* the HoneypotServerInterface of the session
    USE_ATTACKER_CREDENTIALS, \* configuration flag, fixed for a run
    exit_status_ready, \* backend_channel.exit_status_ready(): the exit status has arrived
    credentials,   \* what _resolve_backend_credentials returned
    reaper_task,   \* the task of cleanup_loop: "scheduled" or "dead"
    loop_thread,   \* the blocking call the event loop thread is inside, "free" if none
    submitted,     \* calls the listener submitted that the loop has not started yet
    key_file,      \* what the file at HOST_KEY_PATH holds
    key_classes,   \* the list key_classes of load_host_key
    key_cls,       \* load_host_key: position in key_classes, 0 before the loop
    HOST_KEY       \* the key load_host_key returned, None before

\* the relay sessions, which no VMManager method reads or writes
relay_vars == <<sessions, disconnected>>

\* one relay session: relay_channels, send_all, CommandLogger, credentials
io_vars == <<src, rcvd, dst, relay_pc, transferred, stop_reason, data, view, sent,
             send_pc, trace, cmd_buffer, response_buffer, response_lines, log_lines,
             server, USE_ATTACKER_CREDENTIALS, exit_status_ready, credentials>>

\* the pool: VMManager, main() and the listener
pool_vars == <<MAX_HOT_VMS, warm_vm, hot_vms, locked, waiters, ensure_new,
               call_window, create_pc, run_id, next_id, vms, disks, now, main_pc,
               event, assigned, batch_created, served, reaped>>

\* the event loop thread and the reaper task
loop_vars == <<reaper_task, loop_thread, submitted>>

\* the import of the module: load_host_key
startup_vars == <<key_file, key_classes, key_cls, HOST_KEY>>

vars == <<pool_vars, relay_vars, loop_vars, startup_vars, io_vars, loop_vars, startup_vars>>

NoEntry == [id |-> 0, last_seen |-> 0]

HotClients == {c \in Clients : hot_vms[c].id # 0}

HotIds == {hot_vms[c].id : c \in HotClients}

AtCapacity_off_by_one(n) == n > MAX_HOT_VMS

\* the capacity comparison both tests make: n >= MAX_HOT_VMS
AtCapacity(n) == n >= MAX_HOT_VMS

\* ensure_warm_vm without its capacity test
EnsureAtCapacity_never == FALSE

\* len(self.hot_vms) >= MAX_HOT_VMS, as tested in ensure_warm_vm
EnsureAtCapacity == AtCapacity(Cardinality(HotClients))

TargetAtCapacity_never == FALSE

\* len(self.hot_vms) >= MAX_HOT_VMS, as tested in get_target_for_client
TargetAtCapacity == AtCapacity(Cardinality(HotClients))

GWaiter(c, w) == [kind |-> "G", client |-> c, abandoned |-> FALSE, warm_at_call |-> w]
EWaiter == [kind |-> "E", client |-> 0, abandoned |-> FALSE, warm_at_call |-> FALSE]

WaitingCalls == {i \in 1..Len(waiters) : waiters[i].kind = "G"}

EnsureTasks == ensure_new
               + Cardinality({i \in 1..Len(waiters) : waiters[i].kind = "E"})
               + (IF create_pc # "none" THEN 1 ELSE 0)

\* asyncio.Lock.acquire() returns at once only if the lock is unlocked and
\* nobody is queued for it
LockFree == ~locked /\ waiters = <<>>

\* event records
NoEvent == [op |-> "none", client |-> 0, ip |-> 0]
Returned(op, c, ip) == [op |-> op, client |-> c, ip |-> ip]

\* the streams of one relay session
Streams == {"stdin", "stdout", "stderr"}

NoBytes == [s \in Streams |-> <<>>]

\* no bytes have moved
StreamsIdle == src = NoBytes /\ rcvd = NoBytes /\ dst = NoBytes

\* relay_channels is not running
RelayIdle ==
    /\ relay_pc = "none"
    /\ transferred = FALSE
    /\ stop_reason = "unknown"
    /\ trace = <<>>

\* the command or shell on the backend channel has not exited
BackendRunning == exit_status_ready = FALSE

\* no call of send_all is in progress
SendIdle == data = <<>> /\ view = <<>> /\ sent = -1 /\ send_pc = "none"

\* CommandLogger.__init__
LoggerIdle ==
    /\ cmd_buffer = <<>>
    /\ response_buffer = <<>>
    /\ response_lines = <<>>
    /\ log_lines = <<>>

\* Python's None
None == "None"

\* HoneypotServerInterface.__init__, with the transport's is_authenticated()
NewServer ==
    [username |-> None, password |-> None, exec_command |-> None,
     pty_params |-> None, shell_requested |-> FALSE, channel_ready |-> FALSE,
     authenticated |-> FALSE]

\* the outcome of _resolve_backend_credentials: not called yet, the three
\* values returned, or the RuntimeError raised
Outcome(status, username, password, key_path) ==
    [status |-> status, username |-> username, password |-> password,
     key_path |-> key_path]

NotCalled == Outcome("not called", None, None, None)

\* HoneypotServerInterface.__init__ and the configuration as shipped
CredentialsIdle ==
    /\ server = NewServer
    /\ USE_ATTACKER_CREDENTIALS = TRUE
    /\ credentials = NotCalled

\* no session is looked at: the pool specifications
IoIdle == StreamsIdle /\ RelayIdle /\ SendIdle /\ LoggerIdle /\ BackendRunning /\ CredentialsIdle

\* VMManager.__init__ and the start of main()
PoolInit ==
    /\ MAX_HOT_VMS \in HotCapacities
    /\ warm_vm = 0
    /\ hot_vms = [c \in Clients |-> NoEntry]
    /\ locked = FALSE
    /\ waiters = <<>>
    /\ ensure_new = 1
    /\ call_window = FALSE
    /\ create_pc = "none"
    /\ run_id = 0
    /\ next_id = 1
    /\ vms = {}
    /\ disks = {}
    /\ now = 0
    /\ main_pc = "ensure"
    /\ event = NoEvent
    /\ assigned = [c \in Clients |-> 0]
    /\ batch_created = 0
    /\ served = TRUE
    /\ reaped = [c \in Clients |-> 0]
    /\ sessions = [c \in Clients |-> 0]
    /\ disconnected = [c \in Clients |-> 0]

\* the event loop thread is not inside a blocking call, the reaper task is
\* scheduled and the listener has submitted nothing
LoopIdle ==
    /\ reaper_task = "scheduled"
    /\ loop_thread = "free"
    /\ submitted = <<>>

\* the key classes load_host_key asks paramiko for, in its order
KeyClasses == <<"RSAKey", "Ed25519Key", "ECDSAKey", "DSSKey">>

\* the module has been imported: load_host_key has returned the key of the
\* file at HOST_KEY_PATH ("./id_ed25519")
KeyLoaded ==
    /\ key_file = "Ed25519Key"
    /\ key_classes = KeyClasses
    /\ key_cls = 2
    /\ HOST_KEY = "Ed25519Key"

Init == PoolInit /\ IoIdle /\ LoopIdle /\ KeyLoaded

\* ------------------------------------------------------------ helpers
\* main() awaits ensure_warm_vm() itself and starts the listener afterwards
MainAfterEnsure == IF main_pc = "ensure" THEN "serving" ELSE main_pc

\* cleanup_vm_entry: dom.destroy() and os.remove(disk)
cleanup_vm_entry_vms(ids) == vms \ ids
cleanup_vm_entry_disks(ids) == disks \ ids

\* the listener thread handles one connection at a time and blocks on
\* fut.result(timeout=30) for it
ListenerBusy == \E i \in WaitingCalls : ~waiters[i].abandoned

\* the hypervisor, qemu-img and the guest agent may fail for this attempt
MayFail == run_id <= MaxFailures

\* the batch of overlapping ensure_warm_vm calls ends with the last of them
BatchAfterEnsure == IF EnsureTasks = 1 THEN 0 ELSE batch_created

\* ------------------------------------------------------ ensure_warm_vm
\* ensure_warm_vm returns without creating anything
EnsureReturn ==
    /\ main_pc' = MainAfterEnsure
    /\ batch_created' = BatchAfterEnsure
    /\ UNCHANGED <<locked, create_pc, run_id, next_id, served>>

EnsureLocked_ignores_warm ==
    IF EnsureAtCapacity
    THEN EnsureReturn
    ELSE /\ next_id <= MaxVMs
         /\ locked' = TRUE
         /\ create_pc' = "overlay"
         /\ run_id' = next_id
         /\ next_id' = next_id + 1
         /\ UNCHANGED <<main_pc, batch_created, served>>

\* body of ensure_warm_vm under self.lock, up to the first await
EnsureLocked ==
    IF EnsureAtCapacity
    THEN EnsureReturn
    ELSE IF warm_vm = 0
         THEN /\ next_id <= MaxVMs
              /\ locked' = TRUE
              /\ create_pc' = "overlay"
              /\ run_id' = next_id
              /\ next_id' = next_id + 1
              /\ UNCHANGED <<main_pc, batch_created, served>>
         ELSE EnsureReturn

\* first step of an ensure_warm_vm task: lock.acquire()
EnsureStart ==
    /\ ensure_new > 0
    /\ ensure_new' = ensure_new - 1
    /\ call_window' = (call_window /\ ensure_new' # 0)
    /\ IF LockFree
       THEN EnsureLocked /\ UNCHANGED waiters
       ELSE /\ waiters' = Append(waiters, EWaiter)
            /\ UNCHANGED <<locked, create_pc, run_id, next_id, main_pc,
                           batch_created, served>>
    /\ event' = NoEvent
    /\ UNCHANGED <<reaped, relay_vars, io_vars, loop_vars, startup_vars>>
    /\ UNCHANGED <<MAX_HOT_VMS, warm_vm, hot_vms, vms, disks, now, assigned>>

\* a queued ensure_warm_vm task is woken and takes the lock
EnsureResume ==
    /\ ~locked
    /\ waiters # <<>>
    /\ Head(waiters).kind = "E"
    /\ ensure_new = 0
    /\ waiters' = Tail(waiters)
    /\ EnsureLocked
    /\ event' = NoEvent
    /\ UNCHANGED <<reaped, relay_vars, io_vars, loop_vars, startup_vars>>
    /\ UNCHANGED <<MAX_HOT_VMS, warm_vm, hot_vms, ensure_new, call_window, vms,
                   disks, now, assigned>>

\* the creation attempt ends: ensure_warm_vm leaves the lock and returns
AttemptEnds(outcome) ==
    /\ event' = Returned(outcome, 0, run_id)
    /\ locked' = FALSE
    /\ create_pc' = "none"
    /\ run_id' = 0
    /\ main_pc' = MainAfterEnsure
    /\ batch_created' = BatchAfterEnsure
    /\ served' = IF outcome = "ok" THEN served ELSE FALSE

\* _create_transient_vm in the worker thread: _create_overlay_disk
create_overlay_disk ==
    /\ create_pc = "overlay"
    /\ \/ /\ disks' = disks \cup {run_id}
          /\ create_pc' = "define"
          /\ event' = NoEvent
          /\ UNCHANGED <<locked, run_id, main_pc, batch_created, served>>
       \/ /\ MayFail
          /\ AttemptEnds("error")
          /\ UNCHANGED disks
    /\ UNCHANGED <<reaped, relay_vars, io_vars, loop_vars, startup_vars>>
    /\ UNCHANGED <<MAX_HOT_VMS, warm_vm, hot_vms, waiters, ensure_new, call_window,
                   next_id, vms, now, assigned>>

\* _create_transient_vm in the worker thread: lookupByName, defineXML and create()
create_transient_vm ==
    /\ create_pc = "define"
    /\ \/ /\ vms' = vms \cup {run_id}
          /\ create_pc' = "poll"
          /\ batch_created' = batch_created + 1
          /\ event' = NoEvent
          /\ UNCHANGED <<locked, run_id, main_pc, served>>
       \/ /\ MayFail
          /\ AttemptEnds("error")
          /\ UNCHANGED vms
    /\ UNCHANGED <<reaped, relay_vars, io_vars, loop_vars, startup_vars>>
    /\ UNCHANGED <<MAX_HOT_VMS, warm_vm, hot_vms, waiters, ensure_new, call_window,
                   next_id, disks, now, assigned>>

get_vm_ip_result_dropped ==
    /\ create_pc = "poll"
    /\ \/ /\ AttemptEnds("ok")
          /\ UNCHANGED <<warm_vm, vms, disks>>
       \/ /\ MayFail
          /\ vms' = cleanup_vm_entry_vms({run_id})
          /\ disks' = cleanup_vm_entry_disks({run_id})
          /\ AttemptEnds("timeout")
          /\ UNCHANGED warm_vm
    /\ UNCHANGED <<reaped, relay_vars, io_vars, loop_vars, startup_vars>>
    /\ UNCHANGED <<MAX_HOT_VMS, hot_vms, waiters, ensure_new, call_window, next_id,
                   now, assigned>>

\* get_vm_ip returns an address, or None after the last attempt
get_vm_ip ==
    /\ create_pc = "poll"
    /\ \/ /\ warm_vm' = run_id
          /\ AttemptEnds("ok")
          /\ UNCHANGED <<vms, disks>>
       \/ /\ MayFail
          /\ vms' = cleanup_vm_entry_vms({run_id})
          /\ disks' = cleanup_vm_entry_disks({run_id})
          /\ AttemptEnds("timeout")
          /\ UNCHANGED warm_vm
    /\ UNCHANGED <<reaped, relay_vars, io_vars, loop_vars, startup_vars>>
    /\ UNCHANGED <<MAX_HOT_VMS, hot_vms, waiters, ensure_new, call_window, next_id,
                   now, assigned>>

\* ----------------------------------------------- get_target_for_client
TargetLocked_keeps_warm(c) ==
    /\ ensure_new' = ensure_new + 1
    /\ IF warm_vm # 0
       THEN /\ hot_vms' = [hot_vms EXCEPT ![c] = [id |-> warm_vm, last_seen |-> now]]
            /\ event' = Returned("promoted", c, warm_vm)
            /\ assigned' = [assigned EXCEPT ![c] = warm_vm]
            /\ batch_created' = 0
            /\ served' = TRUE
            /\ UNCHANGED warm_vm
       ELSE /\ event' = Returned("no_warm", c, 0)
            /\ UNCHANGED <<hot_vms, warm_vm, assigned, batch_created, served>>

\* body of get_target_for_client under self.lock
TargetLocked(c) ==
    /\ ensure_new' = ensure_new + 1
    /\ IF warm_vm # 0
       THEN /\ hot_vms' = [hot_vms EXCEPT ![c] = [id |-> warm_vm, last_seen |-> now]]
            /\ warm_vm' = 0
            /\ event' = Returned("promoted", c, warm_vm)
            /\ assigned' = [assigned EXCEPT ![c] = warm_vm]
            /\ batch_created' = 0
            /\ served' = TRUE
       ELSE /\ event' = Returned("no_warm", c, 0)
            /\ UNCHANGED <<hot_vms, warm_vm, assigned, batch_created, served>>

\* The loop runs ready handles in FIFO order: a task made by create_task takes
\* its first step before any call the listener submits after the creating
\* step.  Only a call submitted while that step ran can come first, and the
\* listener can submit one only if it was not blocked on the creating call.
CallMayRun == ensure_new = 0 \/ call_window

Reconnect_no_refresh(c) ==
    /\ event' = Returned("sticky", c, hot_vms[c].id)
    /\ assigned' = [assigned EXCEPT ![c] = hot_vms[c].id]
    /\ UNCHANGED hot_vms

\* get_target_for_client for a client that owns a hot session
Reconnect(c) ==
    /\ hot_vms' = [hot_vms EXCEPT ![c].last_seen = now]
    /\ event' = Returned("sticky", c, hot_vms[c].id)
    /\ assigned' = [assigned EXCEPT ![c] = hot_vms[c].id]

\* the event loop thread is not inside a blocking call
LoopFree == loop_thread = "free"

\* get_target_for_client(c) on the event loop: the step up to the first await
TargetCall(c) ==
    /\ CallMayRun
    /\ call_window' = FALSE
    /\ reaped' = [reaped EXCEPT ![c] = 0]
    /\ IF c \in HotClients
       THEN /\ Reconnect(c)
            /\ UNCHANGED <<warm_vm, waiters, ensure_new, batch_created, served>>
       ELSE IF TargetAtCapacity
       THEN /\ event' = Returned("rejected", c, 0)
            /\ UNCHANGED <<hot_vms, warm_vm, waiters, ensure_new, assigned,
                           batch_created, served>>
       ELSE IF LockFree
       THEN /\ TargetLocked(c)
            /\ UNCHANGED waiters
       ELSE /\ Cardinality(WaitingCalls) < MaxWaiting
            /\ waiters' = Append(waiters, GWaiter(c, warm_vm # 0))
            /\ event' = Returned("queued", c, 0)
            /\ UNCHANGED <<hot_vms, warm_vm, ensure_new, assigned, batch_created,
                           served>>
    /\ UNCHANGED <<relay_vars, io_vars, startup_vars>>
    /\ UNCHANGED <<MAX_HOT_VMS, locked, create_pc, run_id, next_id, vms, disks,
                   now, main_pc>>

\* the listener calls get_target_for_client(c) through
\* asyncio.run_coroutine_threadsafe and the idle event loop starts it at once
get_target_for_client(c) ==
    /\ main_pc = "serving"
    /\ ~ListenerBusy
    /\ submitted = <<>>
    /\ LoopFree
    /\ TargetCall(c)
    /\ UNCHANGED loop_vars

\* a queued get_target_for_client call is woken and takes the lock
TargetResume ==
    /\ ~locked
    /\ waiters # <<>>
    /\ Head(waiters).kind = "G"
    /\ ensure_new = 0
    /\ waiters' = Tail(waiters)
    /\ TargetLocked(Head(waiters).client)
    /\ call_window' = (Head(waiters).abandoned /\ ~ListenerBusy)
    /\ UNCHANGED <<reaped, relay_vars, io_vars, loop_vars, startup_vars>>
    /\ UNCHANGED <<MAX_HOT_VMS, locked, create_pc, run_id, next_id, vms, disks,
                   now, main_pc>>

\* fut.result(timeout=30) expires: the listener drops the connection, the
\* coroutine stays queued
ListenerTimeout ==
    /\ \E i \in WaitingCalls :
          /\ ~waiters[i].abandoned
          /\ waiters' = [waiters EXCEPT ![i].abandoned = TRUE]
    /\ event' = NoEvent
    /\ UNCHANGED <<reaped, relay_vars, io_vars, loop_vars, startup_vars>>
    /\ UNCHANGED <<MAX_HOT_VMS, warm_vm, hot_vms, locked, ensure_new, call_window,
                   create_pc, run_id, next_id, vms, disks, now, main_pc, assigned,
                   batch_created, served>>

\* ------------------------------------------------------------- reaper
Expired_at_window ==
    {c \in HotClients : now - hot_vms[c].last_seen >= PERSISTENCE_MINUTES}

Expired == {c \in HotClients : now - hot_vms[c].last_seen > PERSISTENCE_MINUTES}

to_remove_only_forced(force) == IF force THEN HotClients ELSE {}

\* to_remove: force or now - vm["last_seen"] > timedelta(minutes=PERSISTENCE_MINUTES)
to_remove(force) == IF force THEN HotClients ELSE Expired

\* the VMs of the sessions of a set of clients
IdsOf(cs) == {hot_vms[c].id : c \in cs}

\* the second loop of cleanup_expired_sessions: the entries of `done` are
\* deleted from hot_vms, the VMs `destroyed` are gone and the disks `deleted`
\* are unlinked
Teardown(done, destroyed, deleted) ==
    /\ hot_vms' = [c \in Clients |-> IF c \in done THEN NoEntry ELSE hot_vms[c]]
    /\ vms' = cleanup_vm_entry_vms(destroyed)
    /\ disks' = cleanup_vm_entry_disks(deleted)
    /\ assigned' = [c \in Clients |-> IF c \in done THEN 0 ELSE assigned[c]]
    /\ reaped' = [c \in Clients |-> IF c \in done THEN hot_vms[c].id ELSE reaped[c]]
    /\ event' = NoEvent
    /\ UNCHANGED <<relay_vars, io_vars, startup_vars>>
    /\ UNCHANGED <<MAX_HOT_VMS, warm_vm, locked, waiters, ensure_new, call_window,
                   create_pc, run_id, next_id, now, main_pc, batch_created, served>>

\* one run of cleanup_expired_sessions(force=False) from cleanup_loop in which
\* the hypervisor and the file system do what they are asked
cleanup_expired_sessions ==
    /\ main_pc # "stopped"
    /\ reaper_task = "scheduled"
    /\ LoopFree
    /\ Teardown(to_remove(FALSE), IdsOf(to_remove(FALSE)), IdsOf(to_remove(FALSE)))
    /\ UNCHANGED loop_vars

\* -------------------------------------------------------- environment
Tick ==
    /\ now + ClockStep <= MaxTime
    /\ now' = now + ClockStep
    /\ event' = NoEvent
    /\ UNCHANGED <<reaped, relay_vars, io_vars, loop_vars, startup_vars>>
    /\ UNCHANGED <<MAX_HOT_VMS, warm_vm, hot_vms, locked, waiters, ensure_new,
                   call_window, create_pc, run_id, next_id, vms, disks, main_pc,
                   assigned, batch_created, served>>

\* what the worker thread of asyncio.to_thread(_create_transient_vm) leaves
\* when its task is cancelled: it runs on to the end or to the step that fails
ThreadLeaves ==
    IF create_pc \in {"overlay", "define"}
    THEN {[vm |-> {run_id}, disk |-> {run_id}]}
         \cup (IF MayFail THEN {[vm |-> {}, disk |-> {run_id}]} ELSE {})
         \cup (IF MayFail /\ create_pc = "overlay"
               THEN {[vm |-> {}, disk |-> {}]} ELSE {})
    ELSE {[vm |-> {}, disk |-> {}]}

\* the shutdown sequence of __main__: asyncio.run(main()) is interrupted and
\* cancels every task, the listener is stopped, and
\* cleanup_expired_sessions(force=True) runs once in a new event loop
Shutdown ==
    /\ main_pc # "stopped"
    /\ main_pc' = "stopped"
    /\ locked' = FALSE
    /\ waiters' = <<>>
    /\ ensure_new' = 0
    /\ call_window' = FALSE
    /\ create_pc' = "none"
    /\ run_id' = 0
    /\ \E left \in ThreadLeaves :
          /\ vms' = cleanup_vm_entry_vms({hot_vms[c].id : c \in to_remove(TRUE)})
                       \cup left.vm
          /\ disks' = cleanup_vm_entry_disks({hot_vms[c].id : c \in to_remove(TRUE)})
                       \cup left.disk
    /\ hot_vms' = [c \in Clients |->
                     IF c \in to_remove(TRUE) THEN NoEntry ELSE hot_vms[c]]
    /\ assigned' = [c \in Clients |-> 0]
    /\ reaped' = [c \in Clients |->
                    IF c \in to_remove(TRUE) THEN hot_vms[c].id ELSE reaped[c]]
    /\ event' = Returned("shutdown", 0, 0)
    /\ batch_created' = 0
    /\ served' = TRUE
    /\ UNCHANGED <<MAX_HOT_VMS, warm_vm, next_id, now, relay_vars, io_vars, loop_vars, startup_vars>>

Next ==
    \/ EnsureStart
    \/ EnsureResume
    \/ create_overlay_disk
    \/ create_transient_vm
    \/ get_vm_ip
    \/ \E c \in Clients : get_target_for_client(c)
    \/ TargetResume
    \/ ListenerTimeout
    \/ cleanup_expired_sessions
    \/ Tick

Spec == Init /\ [][Next]_vars

\* ----------------------------------------------------- relay sessions
\* a listener without the `if not target_ip` test
Delivered_any_result(c) ==
    /\ main_pc = "serving"
    /\ event.client = c
    /\ ~call_window
    /\ ~ListenerBusy

\* fut.result() has just handed the listener a target IP for client c
Delivered(c) ==
    /\ main_pc = "serving"
    /\ event.client = c
    /\ event.op \in {"sticky", "promoted"}
    /\ ~call_window
    /\ ~ListenerBusy

\* the listener submits handle_paramiko_proxy(client_sock, c, target_ip) and
\* the relay session of c begins
handle_paramiko_proxy(c) ==
    /\ Delivered(c)
    /\ sessions[c] < MaxSessions
    /\ sessions' = [sessions EXCEPT ![c] = @ + 1]
    /\ event' = Returned("relay", c, event.ip)
    /\ UNCHANGED <<MAX_HOT_VMS, warm_vm, hot_vms, locked, waiters, ensure_new,
                   call_window, create_pc, run_id, next_id, vms, disks, now,
                   main_pc, assigned, batch_created, served, reaped, disconnected,
                   io_vars, loop_vars, startup_vars>>

\* relay_channels ends and handle_paramiko_proxy closes the connection of c
Disconnect(c) ==
    /\ sessions[c] > 0
    /\ sessions' = [sessions EXCEPT ![c] = @ - 1]
    /\ disconnected' = [disconnected EXCEPT ![c] = now]
    /\ event' = NoEvent
    /\ UNCHANGED <<MAX_HOT_VMS, warm_vm, hot_vms, locked, waiters, ensure_new,
                   call_window, create_pc, run_id, next_id, vms, disks, now,
                   main_pc, assigned, batch_created, served, reaped, io_vars,
                   loop_vars, startup_vars>>

\* the process with its shutdown
StopNext ==
    \/ Next
    \/ Shutdown

StopSpec == Init /\ [][StopNext]_vars

\* a new client below capacity asks for a target
NewClientCall ==
    \E c \in Clients \ HotClients : ~TargetAtCapacity /\ get_target_for_client(c)

\* the pool as configured in the source: MAX_HOT_VMS = 1
LiveInit == Init /\ MAX_HOT_VMS = 1

\* The event loop runs every ready task step, worker threads and the guest
\* agent polling finish, and new clients keep connecting.
LiveSpec ==
    /\ LiveInit
    /\ [][Next]_vars
    /\ WF_vars(EnsureStart)
    /\ WF_vars(EnsureResume)
    /\ WF_vars(create_overlay_disk)
    /\ WF_vars(create_transient_vm)
    /\ WF_vars(get_vm_ip)
    /\ WF_vars(TargetResume)
    /\ WF_vars(NewClientCall)

\* the pool as configured, with the relay sessions of its clients
ServiceNext ==
    \/ Next
    \/ \E c \in Clients : handle_paramiko_proxy(c)
    \/ \E c \in Clients : Disconnect(c)

ServiceSpec == LiveInit /\ [][ServiceNext]_vars

\* ... and the reaper task of cleanup_loop keeps running
ReaperLiveSpec == LiveSpec /\ WF_vars(cleanup_expired_sessions)

\* ---------------------------------------------------------------------------
\* The reaper on the event loop, with a hypervisor and a file system that may
\* refuse.  cleanup_vm_entry is a coroutine without an await: dom.destroy()
\* and os.remove() run on the event loop thread, and the whole run of
\* cleanup_expired_sessions is one step of the loop.
\* ---------------------------------------------------------------------------

\* how a run may go: os.remove raises for the session of `raises` (0: for
\* none), dom.isActive()/dom.destroy() raise for the sessions of `undestroyed`
CleanupOutcomes ==
    {[raises |-> r, undestroyed |-> u] :
        r \in {0} \cup to_remove(FALSE), u \in SUBSET to_remove(FALSE)}

\* the sessions the second loop gets through: hot_vms is iterated in insertion
\* order, which is the order of the VM ids, and the loop ends at the exception
TornDown(o) ==
    IF o.raises = 0 THEN to_remove(FALSE)
    ELSE {c \in to_remove(FALSE) : hot_vms[c].id < hot_vms[o.raises].id}

\* cleanup_vm_entry for each session in turn, and cleanup_loop after it: an
\* exception of dom.destroy() is swallowed, an exception of os.remove leaves
\* cleanup_vm_entry, cleanup_expired_sessions and cleanup_loop, whose task ends
cleanup_run(o) ==
    /\ Teardown(TornDown(o),
                IdsOf((TornDown(o) \cup (to_remove(FALSE) \cap {o.raises}))
                      \ o.undestroyed),
                IdsOf(TornDown(o)))
    /\ reaper_task' = IF o.raises = 0 THEN reaper_task ELSE "dead"

\* cleanup_loop wakes from asyncio.sleep(60) and the run reaches its first
\* cleanup_vm_entry: the event loop thread enters dom.destroy()
cleanup_begins ==
    /\ main_pc = "serving"
    /\ reaper_task = "scheduled"
    /\ LoopFree
    /\ to_remove(FALSE) # {}
    /\ loop_thread' = "cleanup_vm_entry"
    /\ event' = NoEvent
    /\ UNCHANGED <<reaper_task, submitted, reaped, relay_vars, io_vars, startup_vars>>
    /\ UNCHANGED <<MAX_HOT_VMS, warm_vm, hot_vms, locked, waiters, ensure_new,
                   call_window, create_pc, run_id, next_id, vms, disks, now,
                   main_pc, assigned, batch_created, served>>

\* the listener accepts a connection of c and submits get_target_for_client(c)
\* while the event loop thread is inside cleanup_vm_entry: the coroutine is
\* queued and the listener blocks in fut.result(timeout=30)
submit(c) ==
    /\ main_pc = "serving"
    /\ ~ListenerBusy
    /\ ~LoopFree
    /\ submitted = <<>>
    /\ submitted' = <<c>>
    /\ UNCHANGED <<pool_vars, relay_vars, io_vars, startup_vars, reaper_task,
                   loop_thread>>

\* the run of cleanup_expired_sessions ends, one way or another, and the
\* event loop thread is free again
cleanup_ends ==
    /\ loop_thread = "cleanup_vm_entry"
    /\ \E o \in CleanupOutcomes : cleanup_run(o)
    /\ loop_thread' = "free"
    /\ UNCHANGED submitted

\* the event loop starts the queued get_target_for_client call
run_submitted ==
    /\ LoopFree
    /\ submitted # <<>>
    /\ TargetCall(Head(submitted))
    /\ submitted' = Tail(submitted)
    /\ UNCHANGED <<reaper_task, loop_thread>>

\* two clients hold a hot session each, the pool is full and no warm VM is
\* being made
LoopInit ==
    /\ MAX_HOT_VMS = 2
    /\ warm_vm = 0
    /\ hot_vms = [c \in Clients |-> [id |-> c, last_seen |-> 0]]
    /\ locked = FALSE
    /\ waiters = <<>>
    /\ ensure_new = 0
    /\ call_window = FALSE
    /\ create_pc = "none"
    /\ run_id = 0
    /\ next_id = 3
    /\ vms = {1, 2}
    /\ disks = {1, 2}
    /\ now = 0
    /\ main_pc = "serving"
    /\ event = NoEvent
    /\ assigned = [c \in Clients |-> c]
    /\ batch_created = 0
    /\ served = TRUE
    /\ reaped = [c \in Clients |-> 0]
    /\ sessions = [c \in Clients |-> 0]
    /\ disconnected = [c \in Clients |-> 0]
    /\ IoIdle
    /\ LoopIdle
    /\ KeyLoaded

LoopNext ==
    \/ EnsureStart
    \/ create_overlay_disk
    \/ create_transient_vm
    \/ get_vm_ip
    \/ \E c \in Clients : get_target_for_client(c)
    \/ TargetResume
    \/ Tick
    \/ cleanup_begins
    \/ \E c \in Clients : submit(c)
    \/ cleanup_ends
    \/ run_submitted

LoopSpec == LoopInit /\ [][LoopNext]_vars

\* ---------------------------------------------------------------------------
\* One relay session: send_all, CommandLogger, relay_channels and the end of
\* handle_paramiko_proxy.  Bytes are integers 0..255, text is a sequence of
\* code points.
\* ---------------------------------------------------------------------------

Min(a, b) == IF a <= b THEN a ELSE b

\* s[:n] of a bytes object or a list
Take(s, n) == SubSeq(s, 1, n)

\* s[n:] of a bytes object, a memoryview or a list
Drop(s, n) == SubSeq(s, n + 1, Len(s))

\* s[n:] that loses one more element than it was told to
Drop_one_more(s, n) == SubSeq(s, n + 2, Len(s))

\* memoryview slicing in send_all: view[sent:]
Rest(s, n) == Drop(s, n)

\* payload.decode(errors="ignore"): UTF-8 for bytes below 0xE0.  An ASCII byte
\* is its own code point, a two-byte sequence gives one code point, every byte
\* that does not start a well-formed sequence inside this payload is dropped.
RECURSIVE decode(_)
decode(p) ==
    IF p = <<>> THEN <<>>
    ELSE IF p[1] < 128 THEN <<p[1]>> \o decode(Tail(p))
    ELSE IF p[1] \in 194..223 /\ Len(p) >= 2 /\ p[2] \in 128..191
         THEN <<(p[1] - 192) * 64 + (p[2] - 128)>> \o decode(Drop(p, 2))
    ELSE decode(Tail(p))

\* str.isprintable() for one code point below 256
isprintable(ch) == ch \in 32..126 \/ (ch \in 161..255 /\ ch # 173)

\* str.isspace() for one code point below 256: what str.strip() removes
isspace(ch) == ch \in {9, 10, 11, 12, 13, 28, 29, 30, 31, 32, 133, 160}

RECURSIVE lstrip(_)
lstrip(s) == IF s # <<>> /\ isspace(s[1]) THEN lstrip(Tail(s)) ELSE s

RECURSIVE rstrip(_)
rstrip(s) ==
    IF s # <<>> /\ isspace(s[Len(s)]) THEN rstrip(Take(s, Len(s) - 1)) ELSE s

\* "".join(buffer).strip()
strip(s) == rstrip(lstrip(s))

\* the characters of the regular expressions of strip_ansi_codes
ESC == 27
CsiOpen == 91
CsiQuestion == 63
CsiParams == (48..57) \cup {59}
CsiFinal == (65..90) \cup (97..122) \cup {64}

RECURSIVE SkipWhile(_, _, _)
SkipWhile(s, j, set) ==
    IF j <= Len(s) /\ s[j] \in set THEN SkipWhile(s, j + 1, set) ELSE j

\* where a match of \x1b\[[0-9;?]*[A-Za-z@] that starts at i ends, 0 if none
EscMatchEnd(s, i) ==
    IF i + 1 <= Len(s) /\ s[i] = ESC /\ s[i + 1] = CsiOpen
    THEN LET j == SkipWhile(s, i + 2, CsiParams \cup {CsiQuestion})
         IN IF j <= Len(s) /\ s[j] \in CsiFinal THEN j ELSE 0
    ELSE 0

\* where a match of \[(?:\?)?[0-9;]*[A-Za-z@] that starts at i ends, 0 if none
AsciiMatchEnd(s, i) ==
    IF s[i] = CsiOpen
    THEN LET k == IF i + 1 <= Len(s) /\ s[i + 1] = CsiQuestion THEN i + 2 ELSE i + 1
             j == SkipWhile(s, k, CsiParams)
         IN IF j <= Len(s) /\ s[j] \in CsiFinal THEN j ELSE 0
    ELSE 0

\* re.sub(pattern, '', text) from position i on: leftmost matches, removed
RECURSIVE SubEsc(_, _)
SubEsc(s, i) ==
    IF i > Len(s) THEN <<>>
    ELSE IF EscMatchEnd(s, i) # 0 THEN SubEsc(s, EscMatchEnd(s, i) + 1)
    ELSE <<s[i]>> \o SubEsc(s, i + 1)

RECURSIVE SubAscii(_, _)
SubAscii(s, i) ==
    IF i > Len(s) THEN <<>>
    ELSE IF AsciiMatchEnd(s, i) # 0 THEN SubAscii(s, AsciiMatchEnd(s, i) + 1)
    ELSE <<s[i]>> \o SubAscii(s, i + 1)

\* the three substitutions in order; the second repeats the first
strip_ansi_codes(text) == SubAscii(SubEsc(SubEsc(text, 1), 1), 1)

\* N of _write_truncated_responses
N == 10

\* the text "..." that stands for the lines left out
Ellipsis == <<46, 46, 46>>

\* the CommandLogger of the session as one value
Logger ==
    [buffer |-> cmd_buffer, response_buffer |-> response_buffer,
     response_lines |-> response_lines, log |-> log_lines]

LoggerBecomes(L) ==
    /\ cmd_buffer' = L.buffer
    /\ response_buffer' = L.response_buffer
    /\ response_lines' = L.response_lines
    /\ log_lines' = L.log

\* one call of append_log_line, by the marker of the line and its text
LogLine(kind, text) == [kind |-> kind, text |-> text]

\* _write_truncated_responses as its docstring has it: the last line only
\* after the marker
write_truncated_responses_last_one(L) ==
    IF L.response_lines = <<>> THEN L
    ELSE LET cleaned_lines ==
                 [i \in 1..Len(L.response_lines) |->
                      strip_ansi_codes(L.response_lines[i])]
             truncated ==
                 IF Len(cleaned_lines) <= N THEN cleaned_lines
                 ELSE Take(cleaned_lines, N - 2) \o <<Ellipsis>>
                      \o Drop(cleaned_lines, Len(cleaned_lines) - 1)
         IN [L EXCEPT
                !.log = @ \o [i \in 1..Len(truncated) |-> LogLine("RESP", truncated[i])],
                !.response_lines = <<>>]

write_truncated_responses(L) ==
    IF L.response_lines = <<>> THEN L
    ELSE LET cleaned_lines ==
                 [i \in 1..Len(L.response_lines) |->
                      strip_ansi_codes(L.response_lines[i])]
             truncated ==
                 IF Len(cleaned_lines) <= N THEN cleaned_lines
                 ELSE Take(cleaned_lines, N - 2) \o <<Ellipsis>>
                      \o Drop(cleaned_lines, Len(cleaned_lines) - 2)
         IN [L EXCEPT
                !.log = @ \o [i \in 1..Len(truncated) |-> LogLine("RESP", truncated[i])],
                !.response_lines = <<>>]

flush_line(L) ==
    LET W == write_truncated_responses(L)
    IN IF W.buffer = <<>> THEN W
       ELSE LET line == strip(W.buffer)
            IN [W EXCEPT
                   !.log = IF line # <<>> THEN Append(@, LogLine("CMD", line)) ELSE @,
                   !.buffer = <<>>]

flush_response_line(L) ==
    IF L.response_buffer = <<>> THEN L
    ELSE LET line == strip(L.response_buffer)
         IN [L EXCEPT
                !.response_lines = IF line # <<>> THEN Append(@, line) ELSE @,
                !.response_buffer = <<>>]

\* the body of the loop of feed_keystrokes without the backspace branch
feed_keystroke_no_backspace(L, ch) ==
    IF ch \in {13, 10} THEN flush_line(L)
    ELSE IF isprintable(ch) THEN [L EXCEPT !.buffer = Append(@, ch)]
    ELSE L

\* the body of the loop of feed_keystrokes for one character
feed_keystroke(L, ch) ==
    IF ch \in {13, 10} THEN flush_line(L)
    ELSE IF ch = 127
         THEN IF L.buffer # <<>>
              THEN [L EXCEPT !.buffer = Take(@, Len(@) - 1)]
              ELSE L
    ELSE IF isprintable(ch) THEN [L EXCEPT !.buffer = Append(@, ch)]
    ELSE L

RECURSIVE feed_text(_, _)
feed_text(L, text) ==
    IF text = <<>> THEN L ELSE feed_text(feed_keystroke(L, text[1]), Tail(text))

feed_keystrokes(L, payload) == feed_text(L, decode(payload))

\* the body of the loop of feed_response for one character
feed_response_char(L, ch) ==
    IF ch \in {13, 10} THEN flush_response_line(L)
    ELSE IF isprintable(ch) \/ ch = 9
         THEN [L EXCEPT !.response_buffer = Append(@, ch)]
    ELSE L

RECURSIVE feed_response_text(_, _)
feed_response_text(L, text) ==
    IF text = <<>> THEN L
    ELSE feed_response_text(feed_response_char(L, text[1]), Tail(text))

feed_response(L, payload) == feed_response_text(L, decode(payload))

\* CommandLogger.flush
flush(L) == write_truncated_responses(flush_line(L))

\* ---- send_all ----

\* the pool, held still while one session is looked at
PoolStill == PoolInit /\ MAX_HOT_VMS = 1 /\ LoopIdle /\ KeyLoaded

\* every sequence over the set of length at most n
SeqsUpTo(set, n) == UNION {[1..k -> set] : k \in 0..n}

\* sender(view): the channel takes the first n bytes of the view
Accepted(v, n) == Take(v, n)

\* One turn of the loop of send_all, the test before the loop included.  The
\* sender is Channel.send or Channel.send_stderr, which return how many bytes
\* they took, 0 at end of stream, and raise socket.error (OSError) on a closed
\* channel; they never return None.
send_all ==
    /\ send_pc \in Streams
    /\ IF view = <<>>
       THEN /\ send_pc' = "returned"
            /\ UNCHANGED <<dst, view, sent>>
       ELSE \/ \E n \in 0..Len(view) :
                 /\ sent' = n
                 /\ dst' = [dst EXCEPT ![send_pc] = @ \o Accepted(view, n)]
                 /\ IF n = 0
                    THEN send_pc' = "EOFError" /\ view' = view
                    ELSE /\ view' = Rest(view, n)
                         /\ send_pc' = IF Rest(view, n) = <<>> THEN "returned"
                                       ELSE send_pc
            \/ /\ send_pc' = "OSError"
               /\ UNCHANGED <<dst, view, sent>>
    /\ UNCHANGED <<pool_vars, relay_vars, loop_vars, startup_vars, src, rcvd, relay_pc, transferred,
                   stop_reason, data, trace, cmd_buffer, response_buffer,
                   response_lines, log_lines, server, USE_ATTACKER_CREDENTIALS, exit_status_ready,
                   credentials>>

SendBytes == {0, 97}

SendInit ==
    /\ PoolStill
    /\ StreamsIdle /\ RelayIdle /\ LoggerIdle /\ BackendRunning /\ CredentialsIdle
    /\ data \in SeqsUpTo(SendBytes, MaxPayload)
    /\ view = data
    /\ sent = -1
    /\ send_pc \in Streams

SendNext == send_all

SendSpec == SendInit /\ [][SendNext]_vars

\* ---- CommandLogger.feed_keystrokes on its own ----

\* NUL, LF, CR, space, "a", DEL and the two bytes of U+00E9
KeyBytes == {0, 10, 13, 32, 97, 127, 195, 169}

\* the bytes of "ls -la\r\nwhoami\r\n"
ExampleKeys ==
    <<108, 115, 32, 45, 108, 97, 13, 10, 119, 104, 111, 97, 109, 105, 13, 10>>

LoggerInit ==
    /\ PoolStill
    /\ RelayIdle /\ SendIdle /\ LoggerIdle /\ BackendRunning /\ CredentialsIdle
    /\ src \in {[NoBytes EXCEPT !["stdin"] = k] :
                   k \in SeqsUpTo(KeyBytes, MaxKeys) \cup {ExampleKeys}}
    /\ rcvd = NoBytes
    /\ dst = NoBytes

\* logger.feed_keystrokes(data) with the next n bytes the attacker typed
KeystrokesArrive ==
    \E n \in 1..Len(src["stdin"]) :
        /\ rcvd' = [rcvd EXCEPT !["stdin"] = @ \o Take(src["stdin"], n)]
        /\ src' = [src EXCEPT !["stdin"] = Drop(@, n)]
        /\ LoggerBecomes(feed_keystrokes(Logger, Take(src["stdin"], n)))
        /\ UNCHANGED <<pool_vars, relay_vars, loop_vars, startup_vars, dst, relay_pc, transferred,
                       stop_reason, data, view, sent, send_pc, trace, server,
                       USE_ATTACKER_CREDENTIALS, exit_status_ready, credentials>>

LoggerNext == KeystrokesArrive

LoggerSpec == LoggerInit /\ [][LoggerNext]_vars

\* ---- the responses of one command ----
\* the lines the backend answers with, as the bytes of one payload each
ResponseLines == {<<97, 10>>, <<98, 13, 10>>}

TruncationInit ==
    /\ PoolStill
    /\ StreamsIdle /\ RelayIdle /\ SendIdle /\ LoggerIdle /\ BackendRunning
    /\ CredentialsIdle

\* the frame of a step of the CommandLogger alone
LoggerStep ==
    UNCHANGED <<pool_vars, relay_vars, loop_vars, startup_vars, src, rcvd, dst, relay_pc,
                transferred, stop_reason, data, view, sent, send_pc, trace, server,
                USE_ATTACKER_CREDENTIALS, exit_status_ready, credentials>>

\* logger.feed_response(data) with one more line of the backend's answer
ResponseLineArrives ==
    /\ log_lines = <<>>
    /\ Len(response_lines) < MaxResponseLines
    /\ \E payload \in ResponseLines :
           LoggerBecomes(feed_response(Logger, payload))
    /\ LoggerStep

\* logger.feed_keystrokes(b"\r"): the attacker ends the next command line
NextCommandEntered ==
    /\ log_lines = <<>>
    /\ response_lines # <<>>
    /\ LoggerBecomes(feed_keystrokes(Logger, <<13>>))
    /\ LoggerStep

TruncationNext == ResponseLineArrives \/ NextCommandEntered

TruncationSpec == TruncationInit /\ [][TruncationNext]_vars

\* ---- authentication and _resolve_backend_credentials ----

BACKEND_USERNAME == "root"
BACKEND_PASSWORD == "root"
BACKEND_KEY_PATH == None

\* what the attacker may send as a user name, a password and a command
Usernames == {"", "root", "admin"}
Passwords == {"", "root", "123456"}
Commands == {"id"}

\* the truth value Python gives an Optional[str]
Truthy(x) == x \notin {None, ""}

\* the frame of the steps that only touch the server interface
ServerStep ==
    UNCHANGED <<pool_vars, relay_vars, loop_vars, startup_vars, src, rcvd, dst, relay_pc, transferred,
                stop_reason, data, view, sent, send_pc, trace, cmd_buffer,
                response_buffer, response_lines, log_lines,
                USE_ATTACKER_CREDENTIALS, exit_status_ready, credentials>>

\* The transport takes authentication requests until one has succeeded and
\* channel requests after that.
check_auth_none(username) ==
    /\ ~server.authenticated
    /\ server' = [server EXCEPT !.username = username]
    /\ ServerStep

check_auth_password(username, password) ==
    /\ ~server.authenticated
    /\ server' = [server EXCEPT !.username = username, !.password = password,
                                !.authenticated = TRUE]
    /\ ServerStep

check_auth_publickey(username) ==
    /\ ~server.authenticated
    /\ server' = [server EXCEPT !.username = username, !.authenticated = TRUE]
    /\ ServerStep

check_channel_shell_request ==
    /\ server.authenticated
    /\ credentials = NotCalled
    /\ server' = [server EXCEPT !.shell_requested = TRUE, !.channel_ready = TRUE]
    /\ ServerStep

check_channel_exec_request(command) ==
    /\ server.authenticated
    /\ credentials = NotCalled
    /\ server' = [server EXCEPT !.exec_command = command, !.channel_ready = TRUE]
    /\ ServerStep

\* the terminal types an attacker asks a PTY for
Terms == {"xterm"}

\* a check_channel_pty_request that also reports the channel as ready
check_channel_pty_request_sets_ready(term) ==
    /\ server.authenticated
    /\ credentials = NotCalled
    /\ server' = [server EXCEPT !.pty_params = term, !.channel_ready = TRUE]
    /\ ServerStep

\* check_channel_pty_request: the terminal parameters are kept
check_channel_pty_request(term) ==
    /\ server.authenticated
    /\ credentials = NotCalled
    /\ server' = [server EXCEPT !.pty_params = term]
    /\ ServerStep

\* `return username, password, key_path`
Creds(username, password, key_path) ==
    Outcome("returned", username, password, key_path)

\* `raise RuntimeError(...)`
RuntimeError == Outcome("RuntimeError", None, None, None)

\* _resolve_backend_credentials that takes whatever the attacker sent
resolve_backend_credentials_unchecked(srv) ==
    IF USE_ATTACKER_CREDENTIALS /\ Truthy(srv.username)
    THEN Creds(srv.username, srv.password, None)
    ELSE IF Truthy(BACKEND_USERNAME)
         THEN Creds(BACKEND_USERNAME, BACKEND_PASSWORD, BACKEND_KEY_PATH)
    ELSE RuntimeError

resolve_backend_credentials(srv) ==
    IF USE_ATTACKER_CREDENTIALS /\ Truthy(srv.username) /\ Truthy(srv.password)
    THEN Creds(srv.username, srv.password, None)
    ELSE IF Truthy(BACKEND_USERNAME)
         THEN Creds(BACKEND_USERNAME, BACKEND_PASSWORD, BACKEND_KEY_PATH)
    ELSE RuntimeError

\* handle_paramiko_proxy once channel_ready is set: the first statement of
\* establish_backend_client
establish_backend_client ==
    /\ server.channel_ready
    /\ credentials = NotCalled
    /\ credentials' = resolve_backend_credentials(server)
    /\ UNCHANGED <<pool_vars, relay_vars, loop_vars, startup_vars, src, rcvd, dst, relay_pc, transferred,
                   stop_reason, data, view, sent, send_pc, trace, cmd_buffer,
                   response_buffer, response_lines, log_lines, server,
                   USE_ATTACKER_CREDENTIALS, exit_status_ready>>

CredentialsInit ==
    /\ PoolStill
    /\ StreamsIdle /\ RelayIdle /\ SendIdle /\ LoggerIdle /\ BackendRunning
    /\ server = NewServer
    /\ USE_ATTACKER_CREDENTIALS \in BOOLEAN
    /\ credentials = NotCalled

CredentialsNext ==
    \/ \E u \in Usernames : check_auth_none(u)
    \/ \E u \in Usernames, pw \in Passwords : check_auth_password(u, pw)
    \/ \E u \in Usernames : check_auth_publickey(u)
    \/ check_channel_shell_request
    \/ \E cmd \in Commands : check_channel_exec_request(cmd)
    \/ establish_backend_client

CredentialsSpec == CredentialsInit /\ [][CredentialsNext]_vars

\* ---- relay_channels and the end of handle_paramiko_proxy ----

\* the size asked of every recv
RECV_SIZE == 4096

NextPoll(s) ==
    CASE s = "stdin" -> "stdout"
      [] s = "stdout" -> "stderr"
      [] s = "stderr" -> "flags"

EofReason(s) ==
    CASE s = "stdin" -> "attacker EOF"
      [] s = "stdout" -> "backend STDOUT EOF"
      [] s = "stderr" -> "backend STDERR EOF"

\* recv that hands on the text of the bytes instead of the bytes
Chunk_as_text(s, n) == decode(Take(src[s], n))

\* channel.recv(RECV_SIZE): the first n bytes the source has to offer
Chunk(s, n) == Take(src[s], n)

\* One of the three `if ...recv_ready():` blocks up to the call of send_all.
recv(s) ==
    /\ relay_pc = s
    /\ send_pc = "none"
    /\ \/ /\ relay_pc' = NextPoll(s)                       \* not ready
          /\ UNCHANGED <<src, rcvd, stop_reason, data, view, sent, send_pc,
                         cmd_buffer, response_buffer, response_lines, log_lines>>
       \/ /\ src[s] = <<>>                                 \* ready, recv gives b""
          /\ stop_reason' = EofReason(s)
          /\ relay_pc' = "finally"
          /\ UNCHANGED <<src, rcvd, data, view, sent, send_pc,
                         cmd_buffer, response_buffer, response_lines, log_lines>>
       \/ \E n \in 1..Min(RECV_SIZE, Len(src[s])) :          \* ready, n bytes
            /\ rcvd' = [rcvd EXCEPT ![s] = @ \o Take(src[s], n)]
            /\ src' = [src EXCEPT ![s] = Drop(@, n)]
            /\ data' = Chunk(s, n)
            /\ LoggerBecomes(IF s = "stdin"
                             THEN feed_keystrokes(Logger, data')
                             ELSE feed_response(Logger, data'))
            /\ view' = data'
            /\ sent' = -1
            /\ send_pc' = s
            /\ UNCHANGED <<relay_pc, stop_reason>>
    /\ UNCHANGED <<pool_vars, relay_vars, loop_vars, startup_vars, dst, transferred, trace, server,
                   USE_ATTACKER_CREDENTIALS, exit_status_ready, credentials>>

\* str(exc) of what send_all raised
ExcText(exc) ==
    IF exc = "EOFError" THEN "exception: Channel closed while sending."
    ELSE "exception: Socket is closed"

\* an `except Exception: pass` in relay_channels: the exception is dropped and
\* the `finally:` runs with the reason it has
Catch_nothing(exc) ==
    /\ relay_pc' = "finally"
    /\ UNCHANGED <<trace, stop_reason>>

\* the `except Exception as exc` clause of relay_channels
Catch(exc) ==
    /\ trace' = Append(trace, <<"log", "Relay error">>)
    /\ stop_reason' = ExcText(exc)
    /\ relay_pc' = "finally"

\* send_all has ended inside relay_channels: `transferred = True`, or the
\* `except Exception` clause.
SendDone ==
    /\ relay_pc \in Streams
    /\ send_pc \in {"returned", "EOFError", "OSError"}
    /\ send_pc' = "none"
    /\ IF send_pc = "returned"
       THEN /\ transferred' = TRUE
            /\ relay_pc' = NextPoll(relay_pc)
            /\ UNCHANGED <<stop_reason, trace>>
       ELSE /\ Catch(send_pc)
            /\ UNCHANGED transferred
    /\ UNCHANGED <<pool_vars, relay_vars, loop_vars, startup_vars, src, rcvd, dst, data, view, sent,
                   cmd_buffer, response_buffer, response_lines, log_lines, server,
                   USE_ATTACKER_CREDENTIALS, exit_status_ready, credentials>>

\* The command or shell on the backend exits while the relay loop runs: from
\* now on backend_channel.exit_status_ready() answers True.
backend_exits ==
    /\ relay_pc \in Streams \cup {"flags"}
    /\ ~exit_status_ready
    /\ exit_status_ready' = TRUE
    /\ UNCHANGED <<pool_vars, relay_vars, loop_vars, startup_vars, src, rcvd, dst, relay_pc,
                   transferred, stop_reason, data, view, sent, send_pc, trace, cmd_buffer,
                   response_buffer, response_lines, log_lines, server,
                   USE_ATTACKER_CREDENTIALS, credentials>>

\* The closed flags, the exit statuses and the sleep at the end of one turn of
\* the loop; what the channels answer is up to the peers.
check_flags ==
    /\ relay_pc = "flags"
    /\ \/ /\ stop_reason' = "attacker channel closed flag set"
          /\ relay_pc' = "finally"
          /\ UNCHANGED transferred
       \/ /\ stop_reason' = "backend channel closed flag set"
          /\ relay_pc' = "finally"
          /\ UNCHANGED transferred
       \/ /\ ~transferred
          /\ stop_reason' = "attacker exit status"
          /\ relay_pc' = "finally"
          /\ UNCHANGED transferred
       \/ /\ ~transferred
          /\ exit_status_ready
          /\ stop_reason' = "backend exit status"
          /\ relay_pc' = "finally"
          /\ UNCHANGED transferred
       \/ /\ transferred \/ ~exit_status_ready
          /\ transferred' = FALSE
          /\ relay_pc' = "stdin"
          /\ UNCHANGED stop_reason
    /\ UNCHANGED <<pool_vars, relay_vars, loop_vars, startup_vars, src, rcvd, dst, data, view, sent,
                   send_pc, trace, cmd_buffer, response_buffer, response_lines,
                   log_lines, server, USE_ATTACKER_CREDENTIALS, exit_status_ready, credentials>>

\* The `finally:` of relay_channels.
relay_finally ==
    /\ relay_pc = "finally"
    /\ trace' = trace \o << <<"Relay stopping", stop_reason>>, <<"flush", "logger">> >>
    /\ LoggerBecomes(flush(Logger))
    /\ relay_pc' = "session"
    /\ UNCHANGED <<pool_vars, relay_vars, loop_vars, startup_vars, src, rcvd, dst, transferred, stop_reason,
                   data, view, sent, send_pc, server, USE_ATTACKER_CREDENTIALS, exit_status_ready,
                   credentials>>

\* handle_paramiko_proxy after relay_channels has returned.
close_session ==
    /\ relay_pc = "session"
    /\ trace' = trace \o << <<"log", "Session closed">>, <<"flush", "logger">>,
                            <<"close", "attacker_channel">>,
                            <<"close", "backend_channel">>,
                            <<"close", "backend_client">>,
                            <<"close", "transport">>,
                            <<"close", "client_sock">> >>
    /\ LoggerBecomes(flush(Logger))
    /\ relay_pc' = "closed"
    /\ UNCHANGED <<pool_vars, relay_vars, loop_vars, startup_vars, src, rcvd, dst, transferred, stop_reason,
                   data, view, sent, send_pc, server, USE_ATTACKER_CREDENTIALS, exit_status_ready,
                   credentials>>

RelayBytes == {10, 97, 195}

RelayInit ==
    /\ PoolStill
    /\ SendIdle /\ LoggerIdle /\ BackendRunning /\ CredentialsIdle
    /\ src \in {f \in [Streams -> SeqsUpTo(RelayBytes, MaxBytes)] :
                   Len(f["stdin"]) + Len(f["stdout"]) + Len(f["stderr"]) <= MaxBytes}
    /\ rcvd = NoBytes
    /\ dst = NoBytes
    /\ relay_pc = "stdin"
    /\ transferred = FALSE
    /\ stop_reason = "unknown"
    /\ trace = <<>>

RelayNext ==
    \/ \E s \in Streams : recv(s)
    \/ send_all
    \/ SendDone
    \/ backend_exits
    \/ check_flags
    \/ relay_finally
    \/ close_session

RelaySpec == RelayInit /\ [][RelayNext]_vars

\* ---- handle_paramiko_proxy from its first line, in a pool that serves ----

\* the client whose session is followed
SessionClient == 1

\* The pool at the moment the listener has handed the first connection of
\* SessionClient to a worker: its VM was promoted, the refill returned at
\* capacity (MAX_HOT_VMS = 1).
SessionPool ==
    /\ MAX_HOT_VMS = 1
    /\ warm_vm = 0
    /\ hot_vms = [c \in Clients |->
                    IF c = SessionClient THEN [id |-> 1, last_seen |-> 0] ELSE NoEntry]
    /\ locked = FALSE
    /\ waiters = <<>>
    /\ ensure_new = 0
    /\ call_window = FALSE
    /\ create_pc = "none"
    /\ run_id = 0
    /\ next_id = 2
    /\ vms = {1}
    /\ disks = {1}
    /\ now = 0
    /\ main_pc = "serving"
    /\ event = Returned("relay", SessionClient, 1)
    /\ assigned = [c \in Clients |-> IF c = SessionClient THEN 1 ELSE 0]
    /\ batch_created = 0
    /\ served = TRUE
    /\ reaped = [c \in Clients |-> 0]
    /\ sessions = [c \in Clients |-> IF c = SessionClient THEN 1 ELSE 0]
    /\ disconnected = [c \in Clients |-> 0]

SessionInit ==
    /\ SessionPool
    /\ LoopIdle /\ KeyLoaded
    /\ SendIdle /\ LoggerIdle /\ BackendRunning /\ CredentialsIdle
    /\ src = [NoBytes EXCEPT !["stdout"] = <<97>>]
    /\ rcvd = NoBytes
    /\ dst = NoBytes
    /\ relay_pc = "start_server"
    /\ transferred = FALSE
    /\ stop_reason = "unknown"
    /\ trace = <<>>

\* the frame of the steps of handle_paramiko_proxy outside relay_channels
ProxyStep ==
    UNCHANGED <<pool_vars, relay_vars, loop_vars, startup_vars, src, rcvd, dst,
                transferred, stop_reason, data, view, sent, send_pc, server,
                USE_ATTACKER_CREDENTIALS, exit_status_ready, credentials>>

\* the entries of the trace for closing the given objects, in the order of
\* the `finally:` of handle_paramiko_proxy
Closing(open) ==
    SelectSeq(<< <<"close", "attacker_channel">>, <<"close", "backend_channel">>,
                 <<"close", "backend_client">>, <<"close", "transport">> >>,
              LAMBDA e : e[2] \in open)
    \o << <<"close", "client_sock">> >>

\* the `except` and `finally:` of handle_paramiko_proxy with a `finally:`
\* that forgets the attacker channel
AbortEntries_leaves_channel(exc, open) ==
    << <<"error", exc>>, <<"log", "Session error">>, <<"flush", "logger">> >>
    \o Closing(open \ {"attacker_channel"})

\* what `except Exception as exc: ... raise` and the `finally:` of
\* handle_paramiko_proxy log, flush and close, given the objects that are not
\* None
AbortEntries(exc, open) ==
    << <<"error", exc>>, <<"log", "Session error">>, <<"flush", "logger">> >>
    \o Closing(open)

\* handle_paramiko_proxy ends by raising
Abort(exc, open) ==
    /\ trace' = trace \o AbortEntries(exc, open)
    /\ LoggerBecomes(flush(Logger))
    /\ relay_pc' = "raised"

\* transport.start_server(server=server)
start_server ==
    /\ relay_pc = "start_server"
    /\ \/ /\ relay_pc' = "accept"
          /\ UNCHANGED <<trace, cmd_buffer, response_buffer, response_lines,
                         log_lines>>
       \/ Abort("SSHException", {"transport"})
    /\ ProxyStep

\* transport.accept(CHANNEL_TIMEOUT_SECONDS) gives None, or
\* server.channel_ready.wait(CHANNEL_TIMEOUT_SECONDS) gives False
channel_timeout ==
    /\ relay_pc = "accept"
    /\ ~server.channel_ready
    /\ \/ Abort("TimeoutError", {"transport"})
       \/ /\ server.authenticated
          /\ Abort("TimeoutError", {"attacker_channel", "transport"})
    /\ ProxyStep

\* ssh_client.connect(...) in establish_backend_client
connect ==
    /\ relay_pc = "accept"
    /\ credentials.status = "returned"
    /\ \/ /\ trace' = Append(trace, <<"connect", credentials.username>>)
          /\ relay_pc' = "open_backend_channel"
          /\ UNCHANGED <<cmd_buffer, response_buffer, response_lines, log_lines>>
       \/ \E exc \in {"AuthenticationException", "OSError"} :
            /\ trace' = Append(trace, <<"connect", credentials.username>>)
                        \o AbortEntries(exc, {"attacker_channel", "transport"})
            /\ LoggerBecomes(flush(Logger))
            /\ relay_pc' = "raised"
    /\ ProxyStep

\* open_backend_channel(backend_client, server)
open_backend_channel ==
    /\ relay_pc = "open_backend_channel"
    /\ \/ /\ relay_pc' = "stdin"
          /\ UNCHANGED <<trace, cmd_buffer, response_buffer, response_lines,
                         log_lines>>
       \/ Abort("SSHException", {"attacker_channel", "backend_client", "transport"})
    /\ ProxyStep

\* handle_paramiko_proxy has returned or raised: its worker thread is free
WorkerReturns ==
    /\ relay_pc \in {"closed", "raised"}
    /\ relay_pc' = "returned"
    /\ sessions[SessionClient] > 0
    /\ sessions' = [sessions EXCEPT ![SessionClient] = @ - 1]
    /\ disconnected' = [disconnected EXCEPT ![SessionClient] = now]
    /\ event' = NoEvent
    /\ UNCHANGED <<MAX_HOT_VMS, warm_vm, hot_vms, locked, waiters, ensure_new,
                   call_window, create_pc, run_id, next_id, vms, disks, now,
                   main_pc, assigned, batch_created, served, reaped, loop_vars,
                   startup_vars, src, rcvd, dst, transferred, stop_reason, data,
                   view, sent, send_pc, trace, cmd_buffer, response_buffer,
                   response_lines, log_lines, server, USE_ATTACKER_CREDENTIALS, exit_status_ready,
                   credentials>>

\* what the attacker does while the handler waits for a channel request
AttackerRequest ==
    /\ relay_pc = "accept"
    /\ \/ \E u \in Usernames : check_auth_none(u)
       \/ \E u \in Usernames, pw \in Passwords : check_auth_password(u, pw)
       \/ \E u \in Usernames : check_auth_publickey(u)
       \/ \E term \in Terms : check_channel_pty_request(term)
       \/ check_channel_shell_request
       \/ \E cmd \in Commands : check_channel_exec_request(cmd)

SessionNext ==
    \/ start_server
    \/ AttackerRequest
    \/ channel_timeout
    \/ relay_pc = "accept" /\ establish_backend_client
    \/ connect
    \/ open_backend_channel
    \/ \E s \in Streams : recv(s)
    \/ send_all
    \/ SendDone
    \/ backend_exits
    \/ check_flags
    \/ relay_finally
    \/ close_session
    \/ WorkerReturns
    \/ \E c \in Clients : get_target_for_client(c)
    \/ \E c \in Clients : handle_paramiko_proxy(c)
    \/ Tick

SessionSpec == SessionInit /\ [][SessionNext]_vars

\* the worker thread runs on and the executor takes the function's end
SessionLiveSpec ==
    /\ SessionSpec
    /\ WF_vars(SendDone)
    /\ WF_vars(relay_finally)
    /\ WF_vars(close_session)
    /\ WF_vars(WorkerReturns)

\* ----------------------------------------------------- append_log_line
\* the marker "RESP>" that append_log_line splits its line on
RespMark == <<82, 69, 83, 80, 62>>

\* the marker "CMD>" of a command line
CmdMark == <<67, 77, 68, 62>>

\* "]0;", what is left of a terminal title sequence without its ESC
TitleMark == <<93, 48, 59>>

\* "Welcome to Ubuntu"
Banner == <<87, 101, 108, 99, 111, 109, 101, 32, 116, 111, 32, 85, 98, 117, 110, 116, 117>>

\* "[L]", the first argument of every log_print of append_log_line
LTag == <<91, 76, 93>>

\* f"[{self.client_ip}]" for the client 10.0.0.5
IpTag == <<91, 49, 48, 46, 48, 46, 48, 46, 53, 93>>

\* the line CommandLogger hands to append_log_line:
\* f"[{self.client_ip}] CMD> {line}" or f"[{self.client_ip}] RESP> {line}"
FullLine(l) ==
    IpTag \o <<32>> \o (IF l.kind = "CMD" THEN CmdMark ELSE RespMark) \o <<32>>
    \o l.text

\* str.startswith
startswith(s, prefix) == Len(prefix) <= Len(s) /\ Take(s, Len(prefix)) = prefix

\* str.find(pat, i): the first index from i on where pat starts, 0 if none
RECURSIVE Find(_, _, _)
Find(s, pat, i) ==
    IF i + Len(pat) - 1 > Len(s) THEN 0
    ELSE IF SubSeq(s, i, i + Len(pat) - 1) = pat THEN i
    ELSE Find(s, pat, i + 1)

\* line.split("RESP>")[1], for a line that holds the marker
toks_1(line) ==
    LET rest == Drop(line, Find(line, RespMark, 1) + Len(RespMark) - 1)
        j == Find(rest, RespMark, 1)
    IN IF j = 0 THEN rest ELSE Take(rest, j - 1)

\* the lines a write of text, which ends with "\n", adds to a stream
RECURSIVE SplitLines(_)
SplitLines(text) ==
    IF text = <<>> THEN <<>>
    ELSE LET i == Find(text, <<10>>, 1)
         IN IF i = 0 THEN <<text>>
            ELSE <<Take(text, i - 1)>> \o SplitLines(Drop(text, i))

\* the log file /var/log/tarpitssh/honey_manager_paramiko.log and stderr, as
\* sequences of lines
NoSink == [file |-> <<>>, stderr |-> <<>>]

\* append_log_line(line)
append_log_line(S, line) ==
    IF Find(line, RespMark, 1) # 0
    THEN LET response_text == strip(toks_1(line))
             stripped == strip_ansi_codes(response_text)
             cleaned_response ==
                 IF startswith(stripped, TitleMark)
                 THEN <<10>> \o Drop(stripped, Len(TitleMark))
                 ELSE stripped
         IN [file |-> (IF startswith(cleaned_response, Banner)
                       THEN <<>>
                       ELSE S.file) \o SplitLines(cleaned_response \o <<10>>),
             stderr |-> S.stderr
                        \o SplitLines(LTag \o <<32>> \o cleaned_response \o <<10>>)]
    ELSE [S EXCEPT !.stderr = @ \o SplitLines(LTag \o <<32>> \o line \o <<10>>)]

\* the sink after the calls of append_log_line made so far
RECURSIVE Written(_, _)
Written(S, calls) ==
    IF calls = <<>> THEN S
    ELSE Written(append_log_line(S, FullLine(Head(calls))), Tail(calls))

LogSink == Written(NoSink, log_lines)

\* the calls of append_log_line one specification looks at
MaxLogLines == 3

\* what the attacker types: "id\r" and "echo RESP> x\r"
LogCommands == {<<105, 100, 13>>, <<101, 99, 104, 111, 32, 82, 69, 83, 80, 62, 32, 120, 13>>}

\* what the backend answers: "uid=0(root)\r\n", the banner
\* "Welcome to Ubuntu\r\n" and a prompt that sets the terminal title,
\* "\x1b]0;vm\r\n"
LogResponses == {<<117, 105, 100, 61, 48, 40, 114, 111, 111, 116, 41, 13, 10>>, <<87, 101, 108, 99, 111, 109, 101, 32, 116, 111, 32, 85, 98, 117, 110, 116, 117, 13, 10>>, <<27, 93, 48, 59, 118, 109, 13, 10>>}

LogInit ==
    /\ PoolStill
    /\ RelayIdle /\ SendIdle /\ LoggerIdle /\ BackendRunning /\ CredentialsIdle
    /\ StreamsIdle

\* the frame of a step of the logger
LogStep ==
    UNCHANGED <<pool_vars, relay_vars, loop_vars, startup_vars, src, rcvd, dst,
                relay_pc, transferred, stop_reason, data, view, sent, send_pc,
                trace, server, USE_ATTACKER_CREDENTIALS, exit_status_ready, credentials>>

\* logger.feed_keystrokes(data) in relay_channels
CommandTyped ==
    /\ Len(log_lines) < MaxLogLines
    /\ \E payload \in LogCommands :
           LoggerBecomes(feed_keystrokes(Logger, payload))
    /\ LogStep

\* logger.feed_response(data) in relay_channels
ResponseShown ==
    /\ Len(log_lines) + Len(response_lines) < MaxLogLines
    /\ \E payload \in LogResponses :
           LoggerBecomes(feed_response(Logger, payload))
    /\ LogStep

\* logger.flush() at the end of a session; the next session writes to the
\* same file with a new CommandLogger
SessionEnds ==
    /\ Logger # flush(Logger)
    /\ LoggerBecomes(flush(Logger))
    /\ LogStep

LogNext == CommandTyped \/ ResponseShown \/ SessionEnds

LogSpec == LogInit /\ [][LogNext]_vars

\* ------------------------------------------------------------ startup
\* what HOST_KEY_PATH holds: no file, a private key of one of the types, a
\* file that is no key, or a file the process may not read
KeyFiles == {"missing", "RSAKey", "Ed25519Key", "ECDSAKey", "DSSKey", "corrupt",
             "unreadable"}

\* key_classes: paramiko always has RSAKey; getattr(paramiko, name, None) is
\* None for a class this paramiko build does not have
KeyClassLists ==
    {l \in [1..Len(KeyClasses) -> {None} \cup {KeyClasses[i] : i \in 1..Len(KeyClasses)}] :
        /\ l[1] = KeyClasses[1]
        /\ \A i \in 2..Len(KeyClasses) : l[i] \in {None, KeyClasses[i]}}

\* key_cls.from_private_key_file(HOST_KEY_PATH): the key, or the exception
from_private_key_file(cls, file) ==
    IF file = cls THEN "key"
    ELSE IF file = "unreadable" THEN "PermissionError"
    ELSE IF file = "corrupt" THEN "ValueError"
    ELSE "SSHException"

\* the interpreter starts to import the module: nothing of the pool exists
StartupInit ==
    /\ MAX_HOT_VMS \in HotCapacities
    /\ warm_vm = 0
    /\ hot_vms = [c \in Clients |-> NoEntry]
    /\ locked = FALSE
    /\ waiters = <<>>
    /\ ensure_new = 0
    /\ call_window = FALSE
    /\ create_pc = "none"
    /\ run_id = 0
    /\ next_id = 1
    /\ vms = {}
    /\ disks = {}
    /\ now = 0
    /\ main_pc = "import"
    /\ event = NoEvent
    /\ assigned = [c \in Clients |-> 0]
    /\ batch_created = 0
    /\ served = TRUE
    /\ reaped = [c \in Clients |-> 0]
    /\ sessions = [c \in Clients |-> 0]
    /\ disconnected = [c \in Clients |-> 0]
    /\ IoIdle
    /\ LoopIdle
    /\ key_file \in KeyFiles
    /\ key_classes \in KeyClassLists
    /\ key_cls = 0
    /\ HOST_KEY = None

\* the frame of a step of the import
ImportStep ==
    UNCHANGED <<MAX_HOT_VMS, warm_vm, hot_vms, locked, waiters, ensure_new,
                call_window, create_pc, run_id, next_id, vms, disks, now, event,
                assigned, batch_created, served, reaped, relay_vars, io_vars,
                loop_vars, key_file, key_classes>>

\* the import ends with an exception: the interpreter exits, main() and the
\* `finally:` of the __main__ block are never reached
raise_at_import ==
    /\ main_pc' = "aborted"
    /\ UNCHANGED <<key_cls, HOST_KEY>>

\* `if not os.path.exists(HOST_KEY_PATH): raise FileNotFoundError`
host_key_exists ==
    /\ main_pc = "import"
    /\ key_cls = 0
    /\ IF key_file = "missing"
       THEN raise_at_import
       ELSE key_cls' = 1 /\ UNCHANGED <<main_pc, HOST_KEY>>
    /\ ImportStep

\* one turn of `for key_cls in key_classes`
try_key_class ==
    /\ main_pc = "import"
    /\ key_cls \in 1..Len(key_classes)
    /\ IF key_classes[key_cls] = None
       THEN key_cls' = key_cls + 1 /\ UNCHANGED <<main_pc, HOST_KEY>>
       ELSE LET r == from_private_key_file(key_classes[key_cls], key_file) IN
            IF r = "key"
            THEN /\ HOST_KEY' = key_classes[key_cls]
                 /\ main_pc' = "loaded"
                 /\ UNCHANGED key_cls
            ELSE IF r \in {"SSHException", "ValueError"}
            THEN key_cls' = key_cls + 1 /\ UNCHANGED <<main_pc, HOST_KEY>>
            ELSE raise_at_import
    /\ ImportStep

\* a load_host_key that gives up silently after the loop
key_classes_exhausted_returns_None ==
    /\ main_pc' = "loaded"
    /\ UNCHANGED <<key_cls, HOST_KEY>>

\* after the loop: `raise RuntimeError("Failed to load host key ...")`
key_classes_exhausted == raise_at_import

\* load_host_key has tried every class
no_key_class_left ==
    /\ main_pc = "import"
    /\ key_cls = Len(key_classes) + 1
    /\ key_classes_exhausted
    /\ ImportStep

\* load_host_key(), called by `HOST_KEY = load_host_key()`
load_host_key == host_key_exists \/ try_key_class \/ no_key_class_left

\* asyncio.run(main()): the reaper task is created and ensure_warm_vm is
\* awaited; the listener thread is started when it has returned
run_main ==
    /\ main_pc = "loaded"
    /\ main_pc' = "ensure"
    /\ ensure_new' = 1
    /\ UNCHANGED <<MAX_HOT_VMS, warm_vm, hot_vms, locked, waiters, call_window,
                   create_pc, run_id, next_id, vms, disks, now, event, assigned,
                   batch_created, served, reaped, relay_vars, io_vars, loop_vars,
                   startup_vars>>

StartupNext ==
    \/ host_key_exists
    \/ try_key_class
    \/ no_key_class_left
    \/ run_main
    \/ EnsureStart
    \/ create_overlay_disk
    \/ create_transient_vm
    \/ get_vm_ip
    \/ \E c \in Clients : get_target_for_client(c)

\* the import runs to its end
StartupSpec == StartupInit /\ [][StartupNext]_vars /\ WF_vars(load_host_key)

\* ----------------------------------------------------------- EXECUTOR
\* connections of one client the listener hands over in one specification
MaxConnections == 3

\* ThreadPoolExecutor(max_workers=MAX_HOT_VMS * 2)
max_workers == MAX_HOT_VMS * 2

RECURSIVE SumOver(_, _)
SumOver(f, cs) ==
    IF cs = {} THEN 0
    ELSE LET c == CHOOSE x \in cs : TRUE IN f[c] + SumOver(f, cs \ {c})

\* the work items submitted to EXECUTOR that have not returned
WorkItems == SumOver(sessions, Clients)

\* the items a worker thread is running: the executor starts a thread for a
\* new item while there are fewer than max_workers
Running == Min(WorkItems, max_workers)

\* the items in the executor's work queue that no worker has taken yet
InWorkQueue == WorkItems - Running

\* EXECUTOR.submit(handle_paramiko_proxy, client_sock, client_ip, target_ip):
\* the item is put on the work queue, the listener goes back to accept()
EXECUTOR_submit(c) ==
    /\ Delivered(c)
    /\ sessions[c] < MaxConnections
    /\ sessions' = [sessions EXCEPT ![c] = @ + 1]
    /\ event' = Returned("relay", c, event.ip)
    /\ UNCHANGED <<MAX_HOT_VMS, warm_vm, hot_vms, locked, waiters, ensure_new,
                   call_window, create_pc, run_id, next_id, vms, disks, now,
                   main_pc, assigned, batch_created, served, reaped, disconnected,
                   io_vars, loop_vars, startup_vars>>

\* the first connection of a client has been handed to a worker
ExecutorInit == SessionPool /\ IoIdle /\ LoopIdle /\ KeyLoaded

ExecutorNext ==
    \/ Next
    \/ \E c \in Clients : EXECUTOR_submit(c)
    \/ \E c \in Clients : Disconnect(c)

ExecutorSpec == ExecutorInit /\ [][ExecutorNext]_vars

TypeOK ==
    /\ MAX_HOT_VMS \in HotCapacities
    /\ warm_vm \in 0..MaxVMs
    /\ hot_vms \in [Clients -> [id : 0..MaxVMs, last_seen : 0..MaxTime]]
    /\ locked \in BOOLEAN
    /\ ensure_new \in 0..2
    /\ Len(waiters) <= 2 * MaxWaiting + 1
    /\ call_window \in BOOLEAN
    /\ create_pc \in {"none", "overlay", "define", "poll"}
    /\ vms \subseteq 1..MaxVMs
    /\ disks \subseteq 1..MaxVMs
    /\ batch_created \in 0..MaxVMs

\* ------------------------------------------------------------- claims

\* C1: in every reachable state the number of entries of hot_vms is at most
\* MAX_HOT_VMS, although get_target_for_client tests the capacity before it
\* acquires the lock and promotes after it.
C1_HotWithinCapacity == Cardinality(HotClients) <= MAX_HOT_VMS

\* the pool is full while a call that passed the capacity test still waits
\* for the lock
C1_Witness == Cardinality(HotClients) = MAX_HOT_VMS /\ WaitingCalls # {}

\* C2: a VM is in at most one place: never both the warm spare and a hot
\* session's VM, and never the VM of two client IPs.
C2_VmInOnePlace ==
    /\ warm_vm # 0 => warm_vm \notin HotIds
    /\ \A c, d \in HotClients : hot_vms[c].id = hot_vms[d].id => c = d

\* a promotion has just bound a VM while another client holds a session, or
\* the spare was refilled next to a hot session
C2_Witness ==
    \/ event.op = "promoted" /\ Cardinality(HotClients) = 2
    \/ warm_vm # 0 /\ HotClients # {}

C4_CapacityRejection ==
    [][\A c \in Clients :
          (c \notin HotClients /\ Cardinality(HotClients) = MAX_HOT_VMS
             /\ get_target_for_client(c)) =>
              /\ event' = Returned("rejected", c, 0)
              /\ UNCHANGED <<warm_vm, hot_vms, locked, waiters, ensure_new,
                             create_pc, vms, disks>>]_vars

\* a call has just been rejected at capacity
C4_Witness ==
    /\ event.op = "rejected"
    /\ Cardinality(HotClients) = MAX_HOT_VMS
    /\ event.client \notin HotClients

\* C5 (as stated): a call for a client with no hot session, made when the hot
\* count is below MAX_HOT_VMS and a warm VM is present, in one atomic step
\* empties the warm slot, binds that VM to the client with last_seen = now,
\* returns its IP and creates an ensure_warm_vm task.
C5_PromotionAtCall ==
    [][\A c \in Clients :
          (c \notin HotClients /\ Cardinality(HotClients) < MAX_HOT_VMS
             /\ warm_vm # 0 /\ get_target_for_client(c)) =>
              /\ warm_vm' = 0
              /\ hot_vms' = [hot_vms EXCEPT ![c] = [id |-> warm_vm, last_seen |-> now]]
              /\ event' = Returned("promoted", c, warm_vm)
              /\ ensure_new' = ensure_new + 1]_vars

\* C6 (as stated): a call for a new client below capacity made when no warm
\* VM is ready returns None, creates an ensure_warm_vm task and adds no hot
\* session.
C6_NoneAtCall ==
    [][/\ \A c \in Clients :
            (c \notin HotClients /\ ~TargetAtCapacity /\ warm_vm = 0 /\ LockFree
               /\ get_target_for_client(c)) =>
                /\ event' = Returned("no_warm", c, 0)
                /\ ensure_new' = ensure_new + 1
                /\ hot_vms' = hot_vms
       /\ (waiters # <<>> /\ ~Head(waiters).warm_at_call /\ TargetResume) =>
                /\ event'.op = "no_warm"
                /\ hot_vms' = hot_vms]_vars

\* C7 (as stated): a call for a new client made while ensure_warm_vm is
\* creating a VM completes without waiting for the creation.
C7_CallNeverWaitsForCreation ==
    [][\A c \in Clients :
          (create_pc # "none" /\ c \notin HotClients /\ get_target_for_client(c)) =>
              event'.op # "queued"]_vars

C9_FailedAttemptLeavesNothing ==
    event.op \in {"timeout", "error"} =>
        /\ event.ip \notin vms
        /\ event.ip \notin disks
        /\ warm_vm = 0

\* the next attempt cannot fail and a run id is left for it
CanProvision ==
    IF create_pc = "none"
    THEN next_id > MaxFailures /\ next_id <= MaxVMs
    ELSE run_id > MaxFailures

C13_ReassignedAfterReaping ==
    [][\A c \in Clients :
          (reaped[c] # 0 /\ get_target_for_client(c)) =>
              /\ event'.op \notin {"rejected", "no_warm"}
              /\ event'.ip # reaped[c]]_vars

\* C14: the persistence window is counted from disconnect: the non-forced
\* reaper never destroys the VM of a client that has a relay session in
\* progress, nor earlier than PERSISTENCE_MINUTES after the client's last
\* disconnect.
C14_WindowFromDisconnect ==
    [][\A c \in Clients :
          (cleanup_expired_sessions /\ c \in HotClients /\ hot_vms'[c] = NoEntry) =>
              /\ sessions[c] = 0
              /\ now - disconnected[c] >= PERSISTENCE_MINUTES]_vars

\* C15: once the shutdown sequence has finished, no VM and no overlay disk
\* that the process created is left: not of a hot session, not the warm
\* spare, not of a creation that was in progress.
C15_ShutdownReclaimsEverything ==
    main_pc = "stopped" => vms = {} /\ disks = {}

\* a is the start of b
IsPrefix(a, b) == Len(a) <= Len(b) /\ a = Take(b, Len(a))

\* C16: at every point of relay_channels, on each of the three streams the
\* bytes delivered to the destination are a prefix of the bytes received from
\* the source: nothing altered, dropped in the middle, duplicated or
\* reordered, whatever the byte values and the chunk boundaries.
C16_RelayFidelity ==
    \A s \in Streams : IsPrefix(dst[s], rcvd[s])

\* a session has ended after stdout carried two bytes, one of them half of a
\* multi-byte character, and stderr carried one, all delivered
C16_Witness ==
    /\ relay_pc = "closed"
    /\ Len(dst["stdout"]) = 2
    /\ \E i \in 1..2 : dst["stdout"][i] = 195
    /\ Len(dst["stderr"]) = 1
    /\ dst = rcvd

\* C17: send_all returns only after the chunks the channel accepted, put
\* together in call order, are the whole payload, however few bytes (at least
\* one) each send call takes; and a send call that takes 0 bytes makes
\* send_all raise EOFError: it neither goes on looping nor returns.
C17_SendAllDelivers ==
    /\ send_pc = "returned" =>
           \E s \in Streams : dst = [NoBytes EXCEPT ![s] = data]
    /\ send_pc \in Streams =>
           dst = [NoBytes EXCEPT ![send_pc] = Take(data, Len(data) - Len(view))]
    /\ sent = 0 <=> send_pc = "EOFError"

\* a payload of at least three bytes, not all alike, has been delivered and
\* the last send call took a single byte
C17_Witness ==
    /\ send_pc = "returned"
    /\ Len(data) >= 3
    /\ \E i, j \in 1..Len(data) : data[i] # data[j]
    /\ sent = 1

\* what a run of keystrokes without CR or LF makes of the pending text
RECURSIVE Edited(_, _)
Edited(pending, run) ==
    IF run = <<>> THEN pending
    ELSE Edited(IF run[1] = 127
                THEN (IF pending # <<>> THEN Take(pending, Len(pending) - 1)
                      ELSE pending)
                ELSE IF isprintable(run[1]) THEN Append(pending, run[1])
                ELSE pending,
                Tail(run))

\* the position of the first CR or LF of the text, 0 if it has none
RECURSIVE FirstBreak(_, _)
FirstBreak(text, i) ==
    IF i > Len(text) THEN 0
    ELSE IF text[i] \in {13, 10} THEN i
    ELSE FirstBreak(text, i + 1)

\* the lines a text ends, given what was pending before it
RECURSIVE LinesEnded(_, _)
LinesEnded(pending, text) ==
    LET i == FirstBreak(text, 1)
        line == strip(Edited(pending, Take(text, i - 1)))
    IN IF i = 0 THEN <<>>
       ELSE (IF line # <<>> THEN <<LogLine("CMD", line)>> ELSE <<>>)
            \o LinesEnded(<<>>, Drop(text, i))

\* what is pending after a text, given what was pending before it
RECURSIVE PendingAfter(_, _)
PendingAfter(pending, text) ==
    LET i == FirstBreak(text, 1)
    IN IF i = 0 THEN Edited(pending, text)
       ELSE PendingAfter(<<>>, Drop(text, i))

\* C18: one call of feed_keystrokes logs, in order, one line for every CR or
\* LF of its text before which the pending text, stripped, is not empty (so
\* CR LF gives one line), where the pending text is what the printable
\* characters typed since the last break add and each 0x7F takes one back
\* from; and "ls -la\r\nwhoami\r\n" gives exactly "ls -la" then "whoami".
C18_KeystrokesToLines ==
    /\ [][KeystrokesArrive =>
            LET text == decode(Drop(rcvd'["stdin"], Len(rcvd["stdin"])))
            IN /\ log_lines' = log_lines \o LinesEnded(cmd_buffer, text)
               /\ cmd_buffer' = PendingAfter(cmd_buffer, text)]_vars
    /\ [](rcvd["stdin"] = ExampleKeys =>
            log_lines = <<LogLine("CMD", <<108, 115, 32, 45, 108, 97>>),
                          LogLine("CMD", <<119, 104, 111, 97, 109, 105>>)>>)

\* the example has been fed whole
C18_Witness ==
    /\ rcvd["stdin"] = ExampleKeys
    /\ Len(log_lines) = 2
    /\ cmd_buffer = <<>>

\* C19: _resolve_backend_credentials returns the attacker's user name and
\* password exactly when reuse is enabled and the attacker gave a user name and
\* a password, both non-empty; in every other case it returns the static user
\* name and password, and the password it returns is never missing.
C19_CredentialFallback ==
    credentials.status # "not called" =>
        /\ credentials.status = "returned"
        /\ IF USE_ATTACKER_CREDENTIALS /\ server.username \notin {None, ""}
              /\ server.password \notin {None, ""}
           THEN /\ credentials.username = server.username
                /\ credentials.password = server.password
           ELSE /\ credentials.username = "root"
                /\ credentials.password = "root"
        /\ credentials.password \notin {None, ""}

\* reuse is enabled and an attacker who authenticated by public key only has
\* been given the static credentials
C19_Witness ==
    /\ USE_ATTACKER_CREDENTIALS
    /\ server.username = "admin"
    /\ server.password = None
    /\ server.authenticated
    /\ credentials.status = "returned"
    /\ credentials.password = "root"

\* the positions of the trace at which something is closed
Closes == {i \in 1..Len(trace) : trace[i][1] = "close"}

\* C20: however relay_channels ended, once the session has been closed a stop
\* reason other than "unknown" was logged and the logger was flushed before
\* the first of the channels, the transport and the socket was closed, and
\* the flush left no text pending in the logger.
C20_ReasonAndFlushBeforeClose ==
    relay_pc = "closed" =>
        /\ \E i \in 1..Len(trace) :
              /\ trace[i][1] = "Relay stopping"
              /\ trace[i][2] # "unknown"
              /\ \A j \in Closes : i < j
        /\ \E i \in 1..Len(trace) :
              /\ trace[i] = <<"flush", "logger">>
              /\ \A j \in Closes : i < j
        /\ cmd_buffer = <<>>
        /\ response_lines = <<>>
        /\ response_buffer = <<>>

\* the entries of the trace, as a set
Logged == {trace[i] : i \in 1..Len(trace)}

\* a channel operation of relay_channels has raised: send_all is raising, or
\* it has ended with bytes of its payload unsent
RelayFailed ==
    \/ send_pc \in {"EOFError", "OSError"}
    \/ send_pc = "none" /\ view # <<>>

\* C21: an exception that a channel operation raises inside relay_channels is
\* caught there and becomes the stop reason that is logged; it does not leave
\* relay_channels, so handle_paramiko_proxy ends normally; after it the
\* worker becomes free, and the listener can take a connection all the while.
C21_RelayFailureContained ==
    /\ [](RelayFailed =>
            /\ relay_pc # "raised"
            /\ <<"log", "Session error">> \notin Logged
            /\ relay_pc \in {"session", "closed", "returned"} =>
                   \E exc \in {"EOFError", "OSError"} :
                       <<"Relay stopping", ExcText(exc)>> \in Logged
            /\ relay_pc \in {"closed", "returned"} =>
                   <<"log", "Session closed">> \in Logged
            /\ main_pc = "serving" /\ ~ListenerBusy)
    /\ [][relay_pc' = "returned" /\ relay_pc # "returned" =>
             sessions'[SessionClient] = sessions[SessionClient] - 1]_vars
    /\ RelayFailed ~> (relay_pc = "returned")

\* after a relay failure the worker is free again and the listener has sent a
\* reconnect of the same client to its VM
C21_Witness ==
    /\ <<"log", "Relay error">> \in Logged
    /\ <<"Relay stopping", "exception: Socket is closed">> \in Logged
    /\ relay_pc = "returned"
    /\ sessions[SessionClient] = 0
    /\ event.op = "sticky"

\* the backend has refused the credentials
AuthFailed == <<"error", "AuthenticationException">> \in Logged

\* C22: when the backend refuses the credentials, the session has made one
\* connection attempt and makes no other, relay_channels is never entered,
\* the attacker channel and the transport are closed, and the hot session of
\* the client is still in the pool with its VM, so that the next call for the
\* same client is a reconnect to that VM.
C22_BackendAuthFailureAborts ==
    /\ [](AuthFailed =>
            /\ Cardinality({i \in 1..Len(trace) : trace[i][1] = "connect"}) = 1
            /\ relay_pc \in {"raised", "returned"}
            /\ rcvd = NoBytes
            /\ \A e \in Logged : e[1] # "Relay stopping"
            /\ <<"close", "attacker_channel">> \in Logged
            /\ <<"close", "transport">> \in Logged
            /\ {<<"close", "backend_channel">>, <<"close", "backend_client">>}
                   \cap Logged = {}
            /\ hot_vms[SessionClient].id = 1
            /\ 1 \in vms)
    /\ [][AuthFailed /\ get_target_for_client(SessionClient) =>
             event' = Returned("sticky", SessionClient, 1)]_vars

\* after the refusal the client has reconnected and been sent to its VM
C22_Witness ==
    /\ AuthFailed
    /\ sessions[SessionClient] = 0
    /\ event = Returned("sticky", SessionClient, 1)

\* some available key class reads the file at HOST_KEY_PATH
KeyUsable == \E i \in 1..Len(key_classes) : key_classes[i] = key_file

\* C23: when the host key file is missing or no supported key class parses
\* it, the import of the module ends with an exception: HOST_KEY is never
\* set, main() does not run, the listener is not started, no call is
\* answered, and no VM and no overlay disk is created.
C23_NoHostKeyAbortsStartup ==
    /\ [](~KeyUsable =>
            /\ main_pc \in {"import", "aborted"}
            /\ HOST_KEY = None
            /\ ensure_new = 0
            /\ next_id = 1
            /\ vms = {}
            /\ disks = {}
            /\ event = NoEvent)
    /\ (~KeyUsable) ~> (main_pc = "aborted")

\* a file that is no key has been offered to every class and refused
C23_Witness ==
    /\ key_file = "corrupt"
    /\ key_cls = Len(key_classes) + 1
    /\ main_pc = "aborted"

\* C24: no call of append_log_line removes or overwrites a line of the log
\* file: the lines the file held before the call are the first lines it
\* holds after it, in the same order.
C24_LogAppendOnly ==
    [][IsPrefix(Written(NoSink, log_lines).file,
                Written(NoSink, log_lines').file)]_vars

\* the line starts with the client IP, with or without the "[L]" of log_print
CarriesIp(line) ==
    startswith(line, IpTag) \/ startswith(line, LTag \o <<32>> \o IpTag)

\* the stream holds one line for each call of append_log_line, each with the
\* client IP in front
OneLinePerEntry(stream) ==
    /\ Len(stream) = Len(log_lines)
    /\ \A i \in 1..Len(stream) : CarriesIp(stream[i])

\* C25: every flushed command line and every response line kept by the
\* truncation is one line of the log sink, be it the log file or stderr, and
\* that line starts with the client IP.
C25_OneLinePerEntry ==
    OneLinePerEntry(LogSink.file) \/ OneLinePerEntry(LogSink.stderr)

\* C26: the task of cleanup_loop is scheduled in every state, and a run of
\* cleanup_expired_sessions leaves at most the one session whose teardown
\* failed among the sessions that were expired when it began.
C26_ReaperRunsForever ==
    /\ [](reaper_task = "scheduled")
    /\ [][cleanup_ends =>
             Cardinality({c \in to_remove(FALSE) : hot_vms'[c] # NoEntry}) <= 1]_vars

\* C27: a get_target_for_client call the listener has submitted never finds
\* the event loop thread inside cleanup_vm_entry.
C27_DestructionOffLoaded == submitted # <<>> => LoopFree

\* C28: every overlay disk is the disk of the warm VM, of a hot VM or of the
\* VM being created, and every VM the hypervisor runs has its disk.
C28_DiskLifetime ==
    /\ \A d \in disks : d = warm_vm \/ d \in HotIds \/ d = run_id
    /\ \A v \in vms : v \in disks

\* C29: a get_target_for_client call for a client whose session is past the
\* persistence window leaves last_seen as it was and is not answered as a
\* sticky reconnect.
C29_RefreshOnlyInsideWindow ==
    [][\A c \in Expired :
          get_target_for_client(c) =>
              /\ hot_vms'[c] = hot_vms[c]
              /\ event'.op # "sticky"]_vars

\* C30: a worker is handed a connection only when fut.result has just
\* returned a target for its client, which is the VM of the client's hot
\* session; when the wait times out the listener starts no session, is no
\* longer blocked and the call is left behind, and the same holds after a
\* rejection or a None; a blocked listener can always time out.
C30_ListenerDropsAndGoesOn ==
    /\ [][\A c \in Clients :
             sessions'[c] > sessions[c] =>
                 /\ event.client = c
                 /\ event.op \in {"sticky", "promoted"}
                 /\ event.ip # 0
                 /\ event.ip = hot_vms[c].id
                 /\ ~call_window]_vars
    /\ [][ListenerTimeout =>
             /\ sessions' = sessions
             /\ ~ListenerBusy'
             /\ Len(waiters') = Len(waiters)]_vars
    /\ [](ListenerBusy => ENABLED ListenerTimeout)
    /\ [][\A c \in Clients :
             get_target_for_client(c) /\ event'.op \in {"rejected", "no_warm"} =>
                 sessions' = sessions /\ ~ListenerBusy']_vars
    /\ [][TargetResume /\ ~Head(waiters).abandoned => ~ListenerBusy']_vars

\* the listener has given up on one call and has already served the next
\* connection, which was rejected or queued in its turn
C30_Witness ==
    /\ \E i \in WaitingCalls : waiters[i].abandoned
    /\ event.op \in {"rejected", "queued", "sticky"}
    /\ \A c \in Clients : sessions[c] = 0

\* C31: every connection that was given a target is being served by a
\* worker thread: no work item waits in the queue of the executor.
C31_NoAdmissionQueue == InWorkQueue = 0

\* the handler has called ssh_client.connect
BackendOpened == \E i \in 1..Len(trace) : trace[i][1] = "connect"

\* the attacker has requested a shell or an exec on its channel
ShellOrExec == server.shell_requested \/ server.exec_command # None

\* C32 as stated: the handler gives up waiting only when the attacker has
\* requested none of shell, PTY and exec.
C32_WaitEndsOnAnyRequest ==
    [][channel_timeout => ~ShellOrExec /\ server.pty_params = None]_vars

\* C32: the backend credentials are resolved and the backend connection is
\* opened only after the attacker has requested a shell or an exec; a PTY
\* request is recorded but does not end the wait; when the handler gives up
\* waiting neither of the two was requested and no backend connection has
\* been or is ever opened.
C32_BackendOnlyAfterShellOrExec ==
    /\ [](credentials # NotCalled => ShellOrExec /\ server.channel_ready)
    /\ [](BackendOpened => ShellOrExec)
    /\ [](server.channel_ready <=> ShellOrExec)
    /\ [][channel_timeout => ~ShellOrExec]_vars
    /\ [](<<"error", "TimeoutError">> \in Logged =>
             ~BackendOpened /\ credentials = NotCalled)

\* the attacker asked for a PTY only and the handler gave up waiting
C32_Witness ==
    /\ server.pty_params # None
    /\ <<"error", "TimeoutError">> \in Logged
    /\ relay_pc = "raised"

\* the relay has stopped for an event of the backend that ends its output
BackendEnded ==
    stop_reason \in {"backend channel closed flag set", "backend exit status"}

\* C33: when relay_channels has stopped because the backend channel was closed
\* or its exit status was ready, the backend has nothing left on stdout or
\* stderr that the relay has not received, and the attacker has been sent
\* all of it.
C33_NothingLeftUndelivered ==
    BackendEnded =>
        \A s \in {"stdout", "stderr"} : src[s] = <<>> /\ dst[s] = rcvd[s]

\* C34: relay_channels terminates.  Once the backend's exit status is ready,
\* the end-of-turn checks of the relay loop end the loop, also in a turn
\* in which the other side had data ready and bytes were moved.
C34_RelayTerminates ==
    [][check_flags /\ exit_status_ready => relay_pc' = "finally"]_vars

\* handle_paramiko_proxy has returned or raised
HandlerEnded == relay_pc \in {"closed", "raised", "returned"}

\* ssh_client.connect(...) reached the backend: it returned, or it raised
\* after the connection to the backend was made (the backend refused the
\* credentials); an OSError means that no connection was made
BackendConnected == BackendOpened /\ <<"error", "OSError">> \notin Logged

\* C35: both sides close together on every exit path of
\* handle_paramiko_proxy.  When the handler has ended, the client socket and
\* the attacker transport are closed, the attacker channel is closed if one
\* was accepted, and the client connected to the backend is closed whenever
\* a connection to the backend was made: no side stays open while the other
\* is closed.
C35_BothSidesCloseTogether ==
    HandlerEnded =>
        /\ <<"close", "client_sock">> \in Logged
        /\ <<"close", "transport">> \in Logged
        /\ BackendOpened => <<"close", "attacker_channel">> \in Logged
        /\ BackendConnected => <<"close", "backend_client">> \in Logged

\* the log entries the response lines R of one command are to leave
KeptOf(R) ==
    IF Len(R) <= 10 THEN [i \in 1..Len(R) |-> LogLine("RESP", R[i])]
    ELSE [i \in 1..11 |->
             IF i <= 8 THEN LogLine("RESP", R[i])
             ELSE IF i = 9 THEN LogLine("RESP", <<46, 46, 46>>)
             ELSE LogLine("RESP", R[Len(R) - 11 + i])]

LiveInstances ==
    Cardinality(HotClients) + (IF warm_vm # 0 THEN 1 ELSE 0)
    + (IF create_pc # "none" THEN 1 ELSE 0)

C38_AbandonedRequestBindsNothing ==
    [][TargetResume /\ Head(waiters).abandoned =>
          hot_vms' = hot_vms /\ warm_vm' = warm_vm]_vars

\* the VMs the pool can reach: the hot sessions' and the warm spare
Reachable == HotIds \cup (IF warm_vm # 0 THEN {warm_vm} ELSE {})

\* the VM ensure_warm_vm is creating and has not stored yet
InCreation == IF create_pc = "poll" THEN {run_id} ELSE {}

\* C39: no VM is orphaned by the pool.  get_target_for_client never replaces
\* the hot_vms entry of a client by another VM, and every VM that was created
\* and not yet destroyed is the warm spare or the VM of exactly one hot
\* session (or the one ensure_warm_vm is still waiting on).
C39_NoVMOrphaned ==
    /\ [][\A c \in HotClients :
             hot_vms'[c].id \in {0, hot_vms[c].id}]_vars
    /\ [](vms = Reachable \cup InCreation)
    /\ [](\A c, d \in HotClients : hot_vms[c].id = hot_vms[d].id => c = d)
    /\ [](warm_vm \notin HotIds)

\* the last call of get_target_for_client returned the IP of a VM
IpReturned == event.op \in {"sticky", "promoted"}

\* C40: every IP returned by get_target_for_client is, at the moment of
\* return, the IP of a VM that is alive and registered as the hot session of
\* the caller; it is never the IP of a VM the reaper has destroyed.
C40_ReturnedIpIsLive ==
    IpReturned =>
        /\ event.ip \in vms
        /\ hot_vms[event.client].id = event.ip

====
